---- MODULE Spec2Model ----
(***************************************************************************)
(* Community broadcast bot: the category / subcategory / group hierarchy   *)
(* with its RunCache read caches (GroupService), the per-admin broadcast   *)
(* session kept in RunCache (CommonService, BroadcastService) and the      *)
(* delivery loop of BroadcastService.sendMessages.                         *)
(***************************************************************************)
EXTENDS Integers, Sequences, FiniteSets, TLC

\* ------------------------------------------------------------------------
\* Bounds of the model
\* ------------------------------------------------------------------------
\* group rows ever inserted (every insert takes a fresh uuid)
MaxRows == 2

\* ------------------------------------------------------------------------
\* Identifiers
\* ------------------------------------------------------------------------
Null == "null"
\* CommonService.OTHER_CATEGORY_ID: the category groups are registered in
OTHER_CATEGORY_ID == "other"
Cats == {OTHER_CATEGORY_ID, "c1"}
Subs == {"s1"}
\* telegram chat ids (group.group_id, unique)
Chats == {"x1", "x2"}
RowIds == 1..MaxRows

VARIABLES
  category,     \* table category:    id -> [st]  (name, has_subcategories are not read by resolve)
  subcategory,  \* table subcategory: id -> [st, category_id]
  group,        \* table group:       id -> [st, group_id, category_id, subcategory_id]
  cache,        \* RunCache list entries: groups:all, groups:category:all:<c>, groups:subcategory:<s>
  cacheGroup,   \* RunCache entries group:id:<id>
  cacheChat,    \* RunCache entries group:group_id:<chat>
  userState,    \* RunCache entry user:<id> of the admin: [set, val]
  handler,      \* the update handlers in flight: their position and their locals
  send,         \* sendMessages in flight: its position and its locals
  broadcast,    \* table broadcast: the ids inserted
  broadcast_message_detail,  \* table broadcast_message_detail: the rows in insert order
  dispatches,   \* the send calls made to Telegram for recipients, with their outcome
  render,       \* one call of replaceVars: its arguments, the event found, its result
  adminIds,     \* process.env.ADMIN_IDS, split: the ids of the admins
  resolving     \* a list read of GroupService in flight: its key and the rows its query gave

hierVars == <<category, subcategory, group, cache, cacheGroup, cacheChat>>
sessVars == <<userState, handler>>
sendVars == <<send, broadcast, broadcast_message_detail, dispatches, render, adminIds, resolving>>
vars == <<hierVars, sessVars, sendVars>>

\* ------------------------------------------------------------------------
\* Rows and query results
\* ------------------------------------------------------------------------
\* IGroup as selected by the queries ('id', 'group_id', 'category_id', 'subcategory_id')
GroupRec(id, g) ==
  [id |-> id, group_id |-> g.group_id, category_id |-> g.category_id,
   subcategory_id |-> g.subcategory_id]

\* `group?` when undefined
NoGroup == [id |-> 0, group_id |-> Null, category_id |-> Null, subcategory_id |-> Null]

FreeRow == [st |-> "free", group_id |-> Null, category_id |-> Null, subcategory_id |-> Null]
DeadRow == [st |-> "dead", group_id |-> Null, category_id |-> Null, subcategory_id |-> Null]

Miss == [hit |-> FALSE, val |-> <<>>]
\* no list read is in flight
NoResolve == [pc |-> "idle", key |-> <<>>, groups |-> <<>>]
Hit(v) == [hit |-> TRUE, val |-> v]
MissOne == [hit |-> FALSE, val |-> NoGroup]
HitOne(r) == [hit |-> TRUE, val |-> r]

KeyAll == <<"groups:all", Null>>
KeyCategoryAll(c) == <<"groups:category:all", c>>
KeySubcategory(s) == <<"groups:subcategory", s>>
CacheKeys == {KeyAll} \cup {KeyCategoryAll(c) : c \in Cats} \cup {KeySubcategory(s) : s \in Subs}

\* the rows of table gt whose id is in S, in id order
RECURSIVE RowsOf(_, _)
RowsOf(gt, S) ==
  IF S = {} THEN <<>>
  ELSE LET m == CHOOSE x \in S : \A y \in S : x <= y
       IN <<GroupRec(m, gt[m])>> \o RowsOf(gt, S \ {m})

Live(gt) == {i \in RowIds : gt[i].st = "live"}

\* knex('group').select(...)
SelectAll(gt) == RowsOf(gt, Live(gt))
\* knex('group').where({ category_id })
SelectByCategory(gt, c) == RowsOf(gt, {i \in Live(gt) : gt[i].category_id = c})
\* knex('group').where({ subcategory_id })
SelectBySubcategory(gt, s) == RowsOf(gt, {i \in Live(gt) : gt[i].subcategory_id = s})
\* knex('group as g').join('subcategory as s', 'g.subcategory_id', 's.id').where('s.category_id', c)
SelectNested(gt, st, c) ==
  RowsOf(gt, {i \in Live(gt) : /\ gt[i].subcategory_id \in Subs
                               /\ st[gt[i].subcategory_id].st = "live"
                               /\ st[gt[i].subcategory_id].category_id = c})

\* ------------------------------------------------------------------------
\* GroupService reads (value returned, cache afterwards)
\* ------------------------------------------------------------------------
Cached(k, fresh) == IF cache[k].hit THEN cache[k].val ELSE fresh
Filled(k, fresh) == IF cache[k].hit THEN cache ELSE [cache EXCEPT ![k] = Hit(fresh)]

getAllGroups == Cached(KeyAll, SelectAll(group))

getGroupsBySubcategory(s) == Cached(KeySubcategory(s), SelectBySubcategory(group, s))

\* (the direct groups alone, without the join on subcategory)
getAllGroupsUnderCategoryDirectOnly(c) == Cached(KeyCategoryAll(c), SelectByCategory(group, c))
\* directGroups followed by nestedGroups
getAllGroupsUnderCategory(c) ==
  Cached(KeyCategoryAll(c), SelectByCategory(group, c) \o SelectNested(group, subcategory, c))

\* IBroadcastTarget
Global == [type |-> "global", id |-> Null]
CategoryTarget(c) == [type |-> "category", id |-> c]
SubcategoryTarget(s) == [type |-> "subcategory", id |-> s]
Targets == {Global} \cup {CategoryTarget(c) : c \in Cats} \cup {SubcategoryTarget(s) : s \in Subs}

KeyOf(target) ==
  IF target.type = "category" THEN KeyCategoryAll(target.id)
  ELSE IF target.type = "subcategory" THEN KeySubcategory(target.id)
  ELSE KeyAll

getGroupsForBroadcast(target) ==
  IF target.type = "global" THEN getAllGroups
  ELSE IF target.type = "category" /\ target.id # Null THEN getAllGroupsUnderCategory(target.id)
  ELSE IF target.type = "subcategory" /\ target.id # Null THEN getGroupsBySubcategory(target.id)
  ELSE getAllGroups

\* getGroupById / getGroupByGroupId: the row (NoGroup when none), cached only when found
RowById(gt, id) == IF gt[id].st = "live" THEN GroupRec(id, gt[id]) ELSE NoGroup
RowByChat(gt, x) ==
  IF \E i \in Live(gt) : gt[i].group_id = x
  THEN LET i == CHOOSE i \in Live(gt) : gt[i].group_id = x IN GroupRec(i, gt[i])
  ELSE NoGroup

getGroupById(id) == IF cacheGroup[id].hit THEN cacheGroup[id].val ELSE RowById(group, id)
getGroupByIdFilled(id) ==
  IF cacheGroup[id].hit \/ RowById(group, id) = NoGroup THEN cacheGroup
  ELSE [cacheGroup EXCEPT ![id] = HitOne(RowById(group, id))]

getGroupByGroupId(x) == IF cacheChat[x].hit THEN cacheChat[x].val ELSE RowByChat(group, x)
getGroupByGroupIdFilled(cc, gt, x) ==
  IF cc[x].hit \/ RowByChat(gt, x) = NoGroup THEN cc
  ELSE [cc EXCEPT ![x] = HitOne(RowByChat(gt, x))]

\* ------------------------------------------------------------------------
\* GroupService writes
\* ------------------------------------------------------------------------
\* clearGroupCache(group?): the list cache afterwards
clearGroupCache(ch, g) ==
  [k \in CacheKeys |->
     IF k = KeyAll THEN Miss
     ELSE IF g.category_id # Null /\ k = KeyCategoryAll(g.category_id) THEN Miss
     ELSE IF g.subcategory_id # Null /\ k = KeySubcategory(g.subcategory_id) THEN Miss
     ELSE ch[k]]

\* foreign keys of table group (references category.id / subcategory.id)
FkOk(c, s) ==
  /\ c # Null => category[c].st = "live"
  /\ s # Null => subcategory[s].st = "live"

HasFreeRow == \E i \in RowIds : group[i].st = "free"
NewRow == CHOOSE i \in RowIds : group[i].st = "free" /\ \A j \in RowIds : group[j].st = "free" => i <= j

\* insert(groupData): group_id is unique, the foreign keys must exist
InsertOk(x, c, s) ==
  /\ FkOk(c, s)
  /\ \A i \in Live(group) : group[i].group_id # x

Unchanged(cc) ==
  [threw |-> TRUE, group |-> group, cache |-> cache, cacheGroup |-> cacheGroup, cacheChat |-> cc]

\* createGroup(groupData) called with cacheChat being cc; needs HasFreeRow
createGroup(x, c, s, cc) ==
  IF ~InsertOk(x, c, s) THEN Unchanged(cc)
  ELSE LET row == [st |-> "live", group_id |-> x, category_id |-> c, subcategory_id |-> s]
           gt == [group EXCEPT ![NewRow] = row]
       IN [threw |-> FALSE, group |-> gt,
           cache |-> clearGroupCache(cache, GroupRec(NewRow, row)),
           cacheGroup |-> cacheGroup, cacheChat |-> cc]

\* Partial<IGroup> as far as the hierarchy goes: hier = FALSE leaves both keys alone
NameOnly == [hier |-> FALSE, category_id |-> Null, subcategory_id |-> Null]
Keys(c, s) == [hier |-> TRUE, category_id |-> c, subcategory_id |-> s]

\* updateGroup(id, groupData) called with cacheChat being cc
updateGroup(id, data, cc) ==
  LET oldGroup == getGroupById(id)
      cg == getGroupByIdFilled(id)
  IN IF group[id].st # "live"
     THEN \* no row is updated: group is undefined
          [threw |-> FALSE, group |-> group,
           cache |-> clearGroupCache(clearGroupCache(cache, oldGroup), NoGroup),
           cacheGroup |-> [cg EXCEPT ![id] = MissOne], cacheChat |-> cc]
     ELSE IF data.hier /\ ~FkOk(data.category_id, data.subcategory_id)
     THEN [Unchanged(cc) EXCEPT !.cacheGroup = cg]
     ELSE LET row == IF data.hier
                     THEN [group[id] EXCEPT !.category_id = data.category_id,
                                            !.subcategory_id = data.subcategory_id]
                     ELSE group[id]
              rec == GroupRec(id, row)
          IN [threw |-> FALSE, group |-> [group EXCEPT ![id] = row],
              cache |-> clearGroupCache(clearGroupCache(cache, oldGroup), rec),
              cacheGroup |-> [cg EXCEPT ![id] = MissOne],
              cacheChat |-> [cc EXCEPT ![rec.group_id] = MissOne]]

\* deleteGroup(id) called with cacheChat being cc
deleteGroup(id, cc) ==
  LET g == getGroupById(id)
      cg == getGroupByIdFilled(id)
  IN [threw |-> FALSE,
      group |-> IF group[id].st = "live" THEN [group EXCEPT ![id] = DeadRow] ELSE group,
      cache |-> clearGroupCache(cache, g),
      cacheGroup |-> [cg EXCEPT ![id] = MissOne],
      cacheChat |-> IF g.group_id # Null THEN [cc EXCEPT ![g.group_id] = MissOne] ELSE cc]

\* onDelete('CASCADE') of broadcast_message_detail.group_id, which references the
\* group_id of the table of groups (named telegram_group there, group in
\* GroupService): the rows of the groups that table gt no longer holds are deleted
CascadeDetail(gt) ==
  SelectSeq(broadcast_message_detail,
            LAMBDA r : \A i \in RowIds :
                         (group[i].st = "live" /\ group[i].group_id = r.group_id)
                           => gt[i].st = "live")

\* the state after a GroupService write r
Commit(r) ==
  /\ group' = r.group
  /\ cache' = r.cache
  /\ cacheGroup' = r.cacheGroup
  /\ cacheChat' = r.cacheChat
  /\ broadcast_message_detail' = CascadeDetail(r.group)
  /\ UNCHANGED <<category, subcategory, sessVars, send, broadcast, dispatches, render, adminIds, resolving>>

\* ------------------------------------------------------------------------
\* Handlers that register, move and unregister groups
\* ------------------------------------------------------------------------
\* CommonService.handleMessage / handleAddCommand: register an unknown chat in "Other"
HandleMessage(x) ==
  LET existingGroup == getGroupByGroupId(x)
      cc == getGroupByGroupIdFilled(cacheChat, group, x)
  IN IF existingGroup # NoGroup
     THEN cacheChat' = cc /\ UNCHANGED <<category, subcategory, group, cache, cacheGroup, sessVars, sendVars>>
     ELSE /\ HasFreeRow
          /\ LET r == createGroup(x, OTHER_CATEGORY_ID, Null, cc)
             IN Commit([r EXCEPT !.cacheChat = getGroupByGroupIdFilled(r.cacheChat, r.group, x)])

\* WelcomeService.handleNewMember: the bot was added to a chat
HandleNewMember(x) ==
  LET existingGroup == getGroupByGroupId(x)
      cc == getGroupByGroupIdFilled(cacheChat, group, x)
  IN IF existingGroup # NoGroup
     THEN cacheChat' = cc /\ UNCHANGED <<category, subcategory, group, cache, cacheGroup, sessVars, sendVars>>
     ELSE HasFreeRow /\ Commit(createGroup(x, Null, Null, cc))

\* GroupRegistrationService.handleGroupRegistration: needsUpdate is whether the
\* chat's title or link differs from the stored one
HandleGroupRegistration(x, needsUpdate) ==
  LET existingGroup == getGroupByGroupId(x)
      cc == getGroupByGroupIdFilled(cacheChat, group, x)
  IN IF existingGroup # NoGroup
     THEN IF needsUpdate
          THEN Commit(updateGroup(existingGroup.id, NameOnly, cc))
          ELSE cacheChat' = cc /\ UNCHANGED <<category, subcategory, group, cache, cacheGroup, sessVars, sendVars>>
     ELSE HasFreeRow /\ Commit(createGroup(x, OTHER_CATEGORY_ID, Null, cc))

\* WelcomeService.handleTitleChange
HandleTitleChange(x) ==
  LET existingGroup == getGroupByGroupId(x)
      cc == getGroupByGroupIdFilled(cacheChat, group, x)
  IN /\ existingGroup # NoGroup
     /\ Commit(updateGroup(existingGroup.id, NameOnly, cc))

\* WelcomeService.handleLeftMember: the bot was removed from a chat
HandleLeftMember(x) ==
  LET existingGroup == getGroupByGroupId(x)
      cc == getGroupByGroupIdFilled(cacheChat, group, x)
  IN /\ existingGroup # NoGroup
     /\ Commit(deleteGroup(existingGroup.id, cc))

\* CategorySelectionService.applyCategory, reached from handleCategorySelect (the
\* category has no subcategory, s = Null) or handleSubcategorySelect (s is one of
\* the subcategories shown for c); "Other" is not offered
applyCategory(id, c, s) == updateGroup(id, Keys(c, s), cacheChat)

ApplyCategory(id, c, s) ==
  /\ group[id].st # "free"
  /\ c # OTHER_CATEGORY_ID /\ category[c].st = "live"
  /\ IF s = Null
     THEN \A t \in Subs : ~(subcategory[t].st = "live" /\ subcategory[t].category_id = c)
     ELSE subcategory[s].st = "live" /\ subcategory[s].category_id = c
  /\ Commit(applyCategory(id, c, s))

\* AdminNotificationService.handleCategoryChange: the option is a category (s = Null)
\* or a subcategory (c = Null) listed when the notification was sent
HandleCategoryChange(id, c, s) ==
  /\ (c = Null) # (s = Null)
  /\ c # Null => category[c].st # "free"
  /\ s # Null => subcategory[s].st # "free"
  /\ group[id].st # "free"
  /\ LET g == getGroupById(id)
     IN IF g = NoGroup
        THEN UNCHANGED vars
        ELSE Commit(updateGroup(id, Keys(c, s), cacheChat))

\* BroadcastService.getGroupsForBroadcast(target)
Resolve(target) ==
  /\ cache' = Filled(KeyOf(target), getGroupsForBroadcast(target))
  /\ UNCHANGED <<category, subcategory, group, cacheGroup, cacheChat, sessVars, sendVars>>

\* a list read of GroupService on a cache miss, up to the answer of its query:
\* `await RunCache.get(cacheKey)` found nothing and the rows have been selected
ResolveQuery(target) ==
  /\ resolving.pc = "idle"
  /\ ~cache[KeyOf(target)].hit
  /\ resolving' = [pc |-> "queried", key |-> KeyOf(target),
                   groups |-> getGroupsForBroadcast(target)]
  /\ UNCHANGED <<hierVars, sessVars, send, broadcast, broadcast_message_detail, dispatches,
                 render, adminIds>>

\* `await RunCache.set({ key: cacheKey, value: JSON.stringify(groups) })` and return
ResolveSet ==
  /\ resolving.pc = "queried"
  /\ cache' = [cache EXCEPT ![resolving.key] = Hit(resolving.groups)]
  /\ resolving' = NoResolve
  /\ UNCHANGED <<category, subcategory, group, cacheGroup, cacheChat, sessVars, send,
                 broadcast, broadcast_message_detail, dispatches, render, adminIds>>

\* ------------------------------------------------------------------------
\* CategoryService / SubcategoryService writes
\* ------------------------------------------------------------------------
NoCat == [st |-> "free"]
NoSub == [st |-> "free", category_id |-> Null]

createCategory(c) ==
  /\ category[c].st = "free"
  /\ category' = [category EXCEPT ![c] = [st |-> "live"]]
  /\ UNCHANGED <<subcategory, group, cache, cacheGroup, cacheChat, sessVars, sendVars>>

\* the columns an update can change (name, has_subcategories) are not in the model
updateCategory(c) ==
  /\ category[c].st = "live"
  /\ UNCHANGED vars

\* onDelete('CASCADE') of group.subcategory_id
CascadeSubs(gt, S) ==
  [i \in RowIds |-> IF gt[i].st = "live" /\ gt[i].subcategory_id \in S THEN DeadRow ELSE gt[i]]
\* onDelete('CASCADE') of group.category_id
CascadeCat(gt, c) ==
  [i \in RowIds |-> IF gt[i].st = "live" /\ gt[i].category_id = c THEN DeadRow ELSE gt[i]]

deleteCategory(c) ==
  /\ category[c].st = "live"
  /\ LET S == {s \in Subs : subcategory[s].st = "live" /\ subcategory[s].category_id = c}
     IN /\ category' = [category EXCEPT ![c] = [st |-> "dead"]]
        /\ subcategory' = [s \in Subs |-> IF s \in S THEN [st |-> "dead", category_id |-> Null]
                                          ELSE subcategory[s]]
        /\ group' = CascadeSubs(CascadeCat(group, c), S)
        /\ broadcast_message_detail' = CascadeDetail(CascadeSubs(CascadeCat(group, c), S))
  /\ UNCHANGED <<cache, cacheGroup, cacheChat, sessVars, send, broadcast, dispatches, render, adminIds, resolving>>

createSubcategory(s, c) ==
  /\ subcategory[s].st = "free"
  /\ category[c].st = "live"
  /\ subcategory' = [subcategory EXCEPT ![s] = [st |-> "live", category_id |-> c]]
  /\ UNCHANGED <<category, group, cache, cacheGroup, cacheChat, sessVars, sendVars>>

updateSubcategory(s, c) ==
  /\ subcategory[s].st = "live"
  /\ category[c].st = "live"
  /\ subcategory' = [subcategory EXCEPT ![s].category_id = c]
  /\ UNCHANGED <<category, group, cache, cacheGroup, cacheChat, sessVars, sendVars>>

deleteSubcategory(s) ==
  /\ subcategory[s].st = "live"
  /\ subcategory' = [subcategory EXCEPT ![s] = [st |-> "dead", category_id |-> Null]]
  /\ group' = CascadeSubs(group, {s})
  /\ broadcast_message_detail' = CascadeDetail(CascadeSubs(group, {s}))
  /\ UNCHANGED <<category, cache, cacheGroup, cacheChat, sessVars, send, broadcast, dispatches, render, adminIds, resolving>>

\* ------------------------------------------------------------------------
\* The broadcast session of the admin (CommonService user state)
\* ------------------------------------------------------------------------
\* messages one session holds (handlers take no further message beyond it)
MaxMessages == 2
\* update handlers of the one admin that can be in flight together
MaxHandlers == 2
Handlers == 1..MaxHandlers

\* a property assigned `undefined`; JSON.stringify leaves such a property out
Undefined == "undefined"
UndefinedIndex == -1

\* texts the admin sends: a plain line and a line in the URL button format
ButtonLine == "b - http://u"
PlainLine == "a"
Texts == {PlainLine, ButtonLine}
\* a text with the variable of the group name, and one with variables of the event
HelloLine == "Hello {group}"
EventLine == "{event_name}: {unlock_link}"

\* parseUrlButtons(text)
parseUrlButtons(text) ==
  IF text = ButtonLine THEN <<[text |-> "b", url |-> "http://u"]>> ELSE <<>>

\* IPostMessage built from a text; messageId 0 is none
PostMessage(text) ==
  [text |-> text, isPinned |-> FALSE, urlButtons |-> <<>>, mediaUrl |-> Null,
   mediaType |-> Null, messageId |-> 0]
\* the photo the admin sends, and its caption
FileId == "f1"
Captions == {"c"}
\* IPostMessage built from a media message
MediaMessage(caption) == [PostMessage(caption) EXCEPT !.mediaUrl = FileId, !.mediaType = "photo"]
\* an array hole, null after JSON.stringify
NullMessage ==
  [text |-> Null, isPinned |-> FALSE, urlButtons |-> <<>>, mediaUrl |-> Null,
   mediaType |-> Null, messageId |-> 0]

\* a session is a JavaScript object: a function from the keys it has to their values
NoObject == <<>>
Has(o, k) == k \in DOMAIN o
MessagesOf(o) == IF Has(o, "messages") THEN o.messages ELSE <<>>

\* { ...prev, ...state }
Spread(prev, state) ==
  [k \in DOMAIN prev \cup DOMAIN state |-> IF k \in DOMAIN state THEN state[k] ELSE prev[k]]

\* JSON.parse(JSON.stringify(o))
StringifyKeepsUndefined(o) == o
Stringify(o) ==
  LET kept == {k \in DOMAIN o :
                 /\ ~(k = "currentAction" /\ o[k] = Undefined)
                 /\ ~(k = "currentMessageIndex" /\ o[k] = UndefinedIndex)}
  IN [k \in kept |-> o[k]]

NoUserState == [set |-> FALSE, val |-> NoObject]

\* CommonService.setUserState(userId, state): the RunCache entry afterwards
setUserState(state) ==
  LET prev == IF userState.set THEN userState.val ELSE [flow |-> "idle"]
  IN [set |-> TRUE, val |-> Stringify(Spread(prev, state))]

\* list[index] = m and list.splice(index, 1), indexes from 0
SetAt(list, index, m) ==
  LET len == IF index + 1 > Len(list) THEN index + 1 ELSE Len(list)
  IN [n \in 1..len |-> IF n = index + 1 THEN m ELSE IF n <= Len(list) THEN list[n] ELSE NullMessage]
SpliceLast(list, index) == SubSeq(list, 1, Len(list) - 1)
Splice(list, index) ==
  LET start == IF index < 0 THEN (IF Len(list) + index < 0 THEN 0 ELSE Len(list) + index)
               ELSE IF index > Len(list) THEN Len(list) ELSE index
  IN SubSeq(list, 1, start) \o SubSeq(list, start + 2, Len(list))

\* a handler that is not running
Idle == [pc |-> "idle", session |-> NoObject, index |-> 0, action |-> Null]
At(h, pc) == handler[h].pc = pc
\* an update is taken by the first handler that is free
Free(h) == At(h, "idle") /\ \A g \in Handlers : g < h => ~At(g, "idle")
Goto(h, pc, session, index, action) ==
  handler' = [handler EXCEPT ![h] = [pc |-> pc, session |-> session, index |-> index,
                                     action |-> action]]
\* the locals of displayMessageWithActions: messageObj alone, or with the caller's
\* session when the caller goes on to write it
OnlyMessage(m) == [messages |-> <<m>>]
Return(h) == handler' = [handler EXCEPT ![h] = Idle]

\* the user whose updates and whose RunCache entry are followed, and another user
UserId == "1001"
OtherId == "2002"

\* isUserAdmin(userId): adminIds.includes(userId)
isUserAdminAlways(userId) == TRUE
isUserAdmin(userId) == userId \in adminIds

\* the targets the broadcast menu offers
StartTargets == {Global, CategoryTarget("c1")}
TargetExists(target) ==
  /\ target.type = "category" => category[target.id].st = "live"
  /\ target.type = "subcategory" => subcategory[target.id].st = "live"

\* the session a start asks for
NewSession(target) ==
  [flow |-> "broadcast", step |-> "creating_post", messages |-> <<>>, broadcastTarget |-> target]

\* handleGlobalSelection / handleCategorySelection / handleAllCategorySelection /
\* handleSubcategorySelection / handleCreatePost: start a broadcast to target
Start(target) ==
  /\ IF isUserAdmin(UserId)
     THEN /\ TargetExists(target)
          /\ userState' = setUserState(NewSession(target))
          /\ UNCHANGED handler
     ELSE /\ Free(1)
          /\ Goto(1, "denied", NoObject, 0, Null)
          /\ UNCHANGED userState
  /\ UNCHANGED <<hierVars, sendVars>>

\* onBroadcast(ctx): the /broadcast command; an admin is shown the menu of targets
OnBroadcast(h) ==
  /\ Free(h)
  /\ Goto(h, IF isUserAdmin(UserId) THEN "menu" ELSE "denied", NoObject, 0, Null)
  /\ UNCHANGED <<hierVars, userState, sendVars>>

\* showBroadcastMenu(ctx) has replied
ShowBroadcastMenu(h) ==
  /\ At(h, "menu")
  /\ Return(h)
  /\ UNCHANGED <<hierVars, userState, sendVars>>

\* 'You do not have access to broadcast messages.' has been answered
DeniedAnswer(h) ==
  /\ At(h, "denied")
  /\ Return(h)
  /\ UNCHANGED <<hierVars, userState, sendVars>>

\* handleBroadcatsMessages(ctx) up to its first write: the session is read and the
\* text is told apart (Cancel, Delete All, a line completing an edit, a new message)
HandleText(h, text) ==
  /\ Free(h)
  /\ userState.set /\ Has(userState.val, "step") /\ userState.val.step = "creating_post"
  /\ LET session == userState.val
         messages == MessagesOf(session)
     IN IF text = "Cancel"
        THEN IF Has(session, "currentAction")
             THEN Goto(h, "cancel_edit",
                       Spread(session, [currentAction |-> Undefined,
                                        currentMessageIndex |-> UndefinedIndex]), 0, Null)
             ELSE Goto(h, "post_cancel", NoObject, 0, Null)
        ELSE IF text = "Delete All"
        THEN Goto(h, "post_delete_all", NoObject, 0, Null)
        ELSE IF text = "Preview"
        THEN Goto(h, "post_preview", NoObject, 0, Null)
        ELSE IF text = "Send"
        THEN Goto(h, "post_send", NoObject, 0, Null)
        ELSE IF /\ Has(session, "currentAction") /\ session.currentAction = "add_url_buttons"
                /\ Has(session, "currentMessageIndex")
        THEN LET index == session.currentMessageIndex
             IN /\ parseUrlButtons(text) # <<>>
                /\ index < Len(messages)
                /\ Goto(h, "edit_write",
                        Spread(session, [messages |->
                          [messages EXCEPT ![index + 1].urlButtons = parseUrlButtons(text)]]),
                        index, "edit")
        ELSE /\ Len(messages) < MaxMessages
             /\ text = PlainLine
             /\ Goto(h, "append_write",
                     Spread(session, [messages |-> Append(messages, PostMessage(text))]),
                     Len(messages), Null)
  /\ UNCHANGED <<hierVars, userState, sendVars>>

\* handleMedia(ctx, 'photo') up to its first await after the session is read: the
\* photo completes a pending attach_media, or is a new message
HandleMedia(h, caption) ==
  /\ Free(h)
  /\ userState.set /\ Has(userState.val, "step") /\ userState.val.step = "creating_post"
  /\ LET session == userState.val
         messages == MessagesOf(session)
     IN IF /\ Has(session, "currentAction") /\ session.currentAction = "attach_media"
           /\ Has(session, "currentMessageIndex")
        THEN LET index == session.currentMessageIndex
             IN /\ index >= 0 /\ index < Len(messages)
                /\ Goto(h, "display",
                        Spread(session, [messages |->
                          [messages EXCEPT
                             ![index + 1].mediaUrl = FileId,
                             ![index + 1].mediaType = "photo",
                             ![index + 1].text = IF caption # Null THEN caption ELSE @]]),
                        index, "media")
        ELSE /\ Len(messages) < MaxMessages
             /\ Goto(h, "append_write",
                     Spread(session, [messages |-> Append(messages, MediaMessage(caption))]),
                     Len(messages), Null)
  /\ UNCHANGED <<hierVars, userState, sendVars>>

\* the new message is stored: setUserState({ ...session, step })
AppendWrite(h) ==
  /\ At(h, "append_write")
  /\ userState' = setUserState(handler[h].session)
  /\ Goto(h, "display", OnlyMessage(handler[h].session.messages[handler[h].index + 1]),
          handler[h].index, "append")
  /\ UNCHANGED <<hierVars, sendVars>>

\* the URL buttons are stored: setUserState(session)
EditWrite(h) ==
  /\ At(h, "edit_write")
  /\ userState' = setUserState(handler[h].session)
  /\ Goto(h, "display", handler[h].session, handler[h].index, "edit")
  /\ UNCHANGED <<hierVars, sendVars>>

\* displayMessageWithActions(ctx, index, messageObj): the message is shown to the
\* admin (sent or not) and, when shown, written back at its index in the session read now
Display(h, sent) ==
  /\ At(h, "display")
  /\ LET index == handler[h].index
         local == handler[h].session
         own == IF handler[h].action \in {"edit", "media"} THEN local.messages[index + 1]
                ELSE local.messages[1]
         messageObj == [own EXCEPT !.messageId = IF sent THEN 1 ELSE @]
         after == Spread(local, [messages |-> SetAt(local.messages, index, messageObj)])
     IN /\ IF sent /\ userState.set /\ Has(userState.val, "messages")
           THEN userState' = setUserState(
                  Spread(userState.val,
                         [messages |-> SetAt(userState.val.messages, index, messageObj)]))
           ELSE UNCHANGED userState
        /\ IF handler[h].action \in {"edit", "media"}
           THEN Goto(h, "edit_clear",
                     Spread(after, [currentAction |-> Undefined,
                                    currentMessageIndex |-> UndefinedIndex]),
                     index, handler[h].action)
           ELSE Return(h)
  /\ UNCHANGED <<hierVars, sendVars>>

\* the pending edit is closed: setUserState(session) with both markers undefined
EditClear(h) ==
  /\ At(h, "edit_clear")
  /\ userState' = setUserState(handler[h].session)
  /\ Return(h)
  /\ UNCHANGED <<hierVars, sendVars>>

\* Cancel during an edit: setUserState(session) with both markers undefined
CancelEdit(h) ==
  /\ At(h, "cancel_edit")
  /\ userState' = setUserState(handler[h].session)
  /\ Return(h)
  /\ UNCHANGED <<hierVars, sendVars>>

\* (a Cancel that also ends the delivery in progress)
PostCancelStopsSend(h) ==
  /\ At(h, "post_cancel")
  /\ userState' = NoUserState
  /\ send' = IF send.pc = "idle" THEN send ELSE [send EXCEPT !.pc = "failed"]
  /\ handler' = [handler EXCEPT ![h] = [pc |-> "idle", session |-> <<>>, index |-> 0,
                                        action |-> "null"]]
  /\ UNCHANGED <<category, subcategory, group, cache, cacheGroup, cacheChat, broadcast,
                 broadcast_message_detail, dispatches, render, adminIds, resolving>>
\* handlePostActions(ctx, 'Cancel')
PostCancel(h) ==
  /\ At(h, "post_cancel")
  /\ IF userState.set /\ Has(userState.val, "messages")
     THEN userState' = NoUserState
     ELSE UNCHANGED userState
  /\ Return(h)
  /\ UNCHANGED <<hierVars, sendVars>>

\* handlePostActions(ctx, 'Delete All')
PostDeleteAll(h) ==
  /\ At(h, "post_delete_all")
  /\ IF userState.set /\ Has(userState.val, "messages") /\ userState.val.messages # <<>>
     THEN userState' = setUserState(
            Spread(userState.val, [step |-> "creating_post", messages |-> <<>>]))
     ELSE UNCHANGED userState
  /\ Return(h)
  /\ UNCHANGED <<hierVars, sendVars>>

\* selectedMessage.isPinned = !selectedMessage.isPinned
PinOn(messages, index) == [messages EXCEPT ![index + 1].isPinned = TRUE]
TogglePin(messages, index) == [messages EXCEPT ![index + 1].isPinned = ~@]

\* handleMessageAction(ctx, 'msg_<action>_<index>') up to its first write
MessageActions == {"media", "url", "pin", "delete"}
\* the indexes a callback carries: of a message, or of none
CallbackIndexes == -1..MaxMessages
\* `isNaN(index) || index < 0 || index >= session.messages.length`
InvalidIndexNever(index, messages) == FALSE
InvalidIndex(index, messages) == index < 0 \/ index >= Len(messages)
HandleMessageAction(h, action, index) ==
  /\ Free(h)
  /\ userState.set
  /\ LET session == Spread(userState.val, [messages |-> MessagesOf(userState.val)])
         messages == session.messages
     IN IF InvalidIndex(index, messages)
        THEN Goto(h, "invalid_index", NoObject, index, Null)
        ELSE IF action \in {"media", "url"}
        THEN Goto(h, "begin_edit", NoObject, index,
                  IF action = "media" THEN "attach_media" ELSE "add_url_buttons")
        ELSE IF action = "pin"
        THEN /\ index + 1 \in DOMAIN messages
             /\ Goto(h, "pin_write",
                     Spread(session, [step |-> "creating_post",
                                      messages |-> TogglePin(messages, index)]),
                     index, Null)
        ELSE Goto(h, "delete_write",
                  Spread(session, [messages |-> Splice(messages, index)]), index, Null)
  /\ UNCHANGED <<hierVars, userState, sendVars>>

\* the callback is answered with 'Invalid message index' and the handler returns
InvalidIndexAnswer(h) ==
  /\ At(h, "invalid_index")
  /\ Return(h)
  /\ UNCHANGED <<hierVars, userState, sendVars>>

\* case 'media' / 'url': setUserState({ currentAction, currentMessageIndex })
BeginEdit(h) ==
  /\ At(h, "begin_edit")
  /\ userState' = setUserState([currentAction |-> handler[h].action,
                                currentMessageIndex |-> handler[h].index])
  /\ Return(h)
  /\ UNCHANGED <<hierVars, sendVars>>

\* case 'pin': the toggled message is stored; a message already shown has its
\* keyboard edited, another one is displayed
PinWrite(h) ==
  /\ At(h, "pin_write")
  /\ userState' = setUserState(handler[h].session)
  /\ IF handler[h].session.messages[handler[h].index + 1].messageId # 0
     THEN Return(h)
     ELSE Goto(h, "display", OnlyMessage(handler[h].session.messages[handler[h].index + 1]),
               handler[h].index, "pin")
  /\ UNCHANGED <<hierVars, sendVars>>

\* case 'delete': setUserState(session) after the splice
DeleteWrite(h) ==
  /\ At(h, "delete_write")
  /\ userState' = setUserState(handler[h].session)
  /\ Return(h)
  /\ UNCHANGED <<hierVars, sendVars>>

\* ------------------------------------------------------------------------
\* Variables of a message (BroadcastService.replaceVars)
\* ------------------------------------------------------------------------
\* pieces one text holds
MaxPieces == 2

\* the names replaceVars has a regular expression for, in the order of its chain
EventTokens ==
  <<"{event_name}", "{start_date}", "{end_date}", "{start_time}", "{end_time}",
    "{timezone}", "{location}", "{address}", "{year}", "${slug}", "{slug}">>
EventFields ==
  <<"name", "start_date", "end_date", "start_time", "end_time",
    "timezone", "location", "address", "year", "slug", "slug">>

\* a text is a sequence of pieces: plain text, a variable the chain knows (in
\* lower or upper case), or a name in braces it has no expression for
Pieces ==
  {"Hi ", "{group}", "{GROUP}", "{unlock_link}", "{unknown}"}
    \cup {EventTokens[n] : n \in DOMAIN EventTokens}
TemplateTexts == UNION {[1..n -> Pieces] : n \in 1..MaxPieces}

\* the flag i of the regular expressions
LowerCase(piece) == IF piece = "{GROUP}" THEN "{group}" ELSE piece

\* a name holding "$$", and what String.replace inserts for it as a replacement
\* string: "$$" stands for one "$" there
DollarName == "Cash $$"
GetSubstitution(replacement) == IF replacement = DollarName THEN "Cash $" ELSE replacement

\* text.replace(/token/gi, value)
Replace(text, token, value) ==
  [n \in DOMAIN text |->
     IF LowerCase(text[n]) = token THEN GetSubstitution(value) ELSE text[n]]

\* IEventDetail | null as getEventByYearAndGroupId returns it
NoEvent == [found |-> FALSE]
EventDetail(slug) ==
  [found |-> TRUE, name |-> "Meetup", start_date |-> "2025-12-25", end_date |-> "2025-12-26",
   start_time |-> "18:00", end_time |-> "21:00", timezone |-> "UTC", location |-> "Hall",
   address |-> "1 Main St", year |-> "2025", slug |-> slug,
   unlock_link |-> "app.unlock-protocol.com/event/meetup"]
\* the events a lookup returns: none, or one with or without slug and with one
\* unlock_link or another
UnlockLinks == {"app.unlock-protocol.com/event/meetup", "https://example.org/tickets", ""}
Events ==
  {NoEvent} \cup {[EventDetail(slug) EXCEPT !.unlock_link = link] :
                    slug \in {"meetup", ""}, link \in UnlockLinks}

\* event?.field ?? ''
FieldOf(event, field) == IF event.found THEN event[field] ELSE ""

\* the chain of replace calls on the event, from position n of EventTokens on
RECURSIVE ReplaceEvent(_, _, _)
ReplaceEvent(text, event, n) ==
  IF n > Len(EventTokens) THEN text
  ELSE ReplaceEvent(Replace(text, EventTokens[n], FieldOf(event, EventFields[n])), event, n + 1)

\* "Handle unlock_link replacement with slug if available"
UnlockBase == "https://app.unlock-protocol.com/event/"
UnlockLinkStored(event) == FieldOf(event, "unlock_link")
UnlockLinkOf(event) ==
  IF event.found /\ event.slug # "" THEN UnlockBase \o event.slug
  ELSE FieldOf(event, "unlock_link")

\* replaceVars(text, group) once the event is there
replaceVars(text, group_name, event) ==
  LET result == ReplaceEvent(Replace(text, "{group}", group_name), event, 1)
  IN Replace(result, "{unlock_link}", UnlockLinkOf(event))

\* the url parseUrlButtons stores for a button whose url is {unlock_link}
UnlockButtonUrl == <<UnlockBase, "{slug}">>

NoRender ==
  [pc |-> "none", text |-> <<>>, group_name |-> "", event |-> NoEvent, result |-> <<>>]

\* one call of replaceVars: the event is looked up (the query returns an event,
\* returns none, or fails) and the chain runs
ReplaceVars(answered, event) ==
  /\ render.pc = "call"
  /\ render' = IF answered
               THEN [render EXCEPT !.pc = "returned", !.event = event,
                                   !.result = replaceVars(render.text, render.group_name, event)]
               ELSE [render EXCEPT !.pc = "raised"]
  /\ UNCHANGED <<hierVars, sessVars, send, broadcast, broadcast_message_detail, dispatches,
                 adminIds, resolving>>

\* ------------------------------------------------------------------------
\* The delivery loop (BroadcastService.sendMessages)
\* ------------------------------------------------------------------------
\* "Progress update every 10 groups or at the end"
ProgressEvery == 10

\* String(error) of a failed Telegram call
ErrorText == "Error: request failed"

NoSend ==
  [pc |-> "idle", messages |-> <<>>, groups |-> <<>>, v |-> 0, i |-> 0,
   successCount |-> 0, failureCount |-> 0, successEntries |-> <<>>, failureEntries |-> <<>>,
   progressMsgId |-> 0, inflight |-> {}, files |-> {}]

\* a line of the CSV log: group, status, reason
Entry(g, status, reason) == [group_id |-> g.group_id, status |-> status, reason |-> reason]

\* successEntries.find((entry) => entry.startsWith(`${name},${group_id}`))
HasEntryNever(entries, g) == FALSE
HasEntry(entries, g) == \E n \in DOMAIN entries : entries[n].group_id = g.group_id

\* an exception reaches the catch of sendMessages
Thrown(s) == [s EXCEPT !.pc = "failed"]

\* `continue` and the end of the loop body: the next recipient, or the CSV log
Continue(s) ==
  IF s.i + 1 < Len(s.groups) THEN [s EXCEPT !.i = @ + 1] ELSE [s EXCEPT !.pc = "csv"]

\* the end of an iteration that was not cut short by `continue`
EndOfIteration(s) ==
  IF (s.i + 1) % ProgressEvery = 0 \/ s.i = Len(s.groups) - 1
  THEN [s EXCEPT !.pc = "progress"]
  ELSE Continue(s)

\* (no counter moves)
CountNothing(s) == s
\* successCount++ / failureCount++
CountSuccess(s) == [s EXCEPT !.successCount = @ + 1]
CountFailure(s) == [s EXCEPT !.failureCount = @ + 1]

\* (the error of the send call leaves the loop)
OnDispatchErrorRethrow(s, g) == Thrown(s)
\* the catch of a failed send call: counted, logged with the error text, loop goes on
OnDispatchError(s, g) ==
  EndOfIteration([CountFailure(s) EXCEPT
                    !.failureEntries = Append(@, Entry(g, "Failed", ErrorText))])

\* `if (!group.group_id)`: the recipient has no chat id to send to
UnaddressableNever(g) == FALSE
Unaddressable(g) == g.group_id = Null

\* `if (groups.length === 0)`
NoRecipientsNever(groups) == FALSE
NoRecipients(groups) == groups = <<>>

\* a message text as the pieces the regular expressions of replaceVars see
PiecesOf(text) ==
  IF text = HelloLine THEN <<"Hello ", "{group}">>
  ELSE IF text = EventLine THEN <<"{event_name}", ": ", "{unlock_link}">>
  ELSE <<text>>

\* the string a sequence of pieces is
RECURSIVE Join(_)
Join(pieces) == IF pieces = <<>> THEN "" ELSE Head(pieces) \o Join(Tail(pieces))

\* group.name of the row of a chat: the title the chat had when it was registered
TitleOf(x) == IF x = "x1" THEN "A" ELSE DollarName

\* the event of the current year stored for a chat, if any
EventOf(x) == IF x = "x1" THEN EventDetail("meetup") ELSE NoEvent

\* the texts a message of a session holds
MessageTexts == {PlainLine, HelloLine, EventLine} \cup Captions

\* replaceVars of every text for every chat, with the name and the event of the chat
Processed ==
  [text \in MessageTexts |->
     [x \in Chats |-> Join(replaceVars(PiecesOf(text), TitleOf(x), EventOf(x)))]]

\* processedText = await this.replaceVars(message.text ?? '', groupForVars)
ProcessedText(message, g) == Processed[message.text][g.group_id]

\* previewGroup.group_name, and the name of a registered group instead
LiveGroupName ==
  IF \E i \in RowIds : group[i].st = "live"
  THEN TitleOf(group[CHOOSE i \in RowIds : group[i].st = "live"].group_id)
  ELSE ""
PreviewGroupName == "Sample Community"

\* the event replaceVars takes when hardcoded is set
SampleEvent ==
  [found |-> TRUE, name |-> "Sample Community Event", start_date |-> "2025-12-25",
   end_date |-> "2025-12-25", start_time |-> "18:00", end_time |-> "21:00",
   timezone |-> "UTC", location |-> "Sample Location", address |-> "Sample Address",
   year |-> "2025", slug |-> "sample-event",
   unlock_link |-> "app.unlock-protocol.com/event/sample-event"]

\* message_id of a message sent as a preview; 1 is that of a message as displayed
PreviewMessageId == 2

\* handlePostActions(ctx, 'Preview'): the session is read again
PostPreview(h) ==
  /\ At(h, "post_preview")
  /\ IF userState.set /\ Has(userState.val, "messages") /\ userState.val.messages # <<>>
     THEN Goto(h, "preview", userState.val, 0, Null)
     ELSE Return(h)
  /\ UNCHANGED <<hierVars, userState, sendVars>>

\* previewMessages, one turn of its loop: the text is rendered for the preview group,
\* the message is sent to the admin (or the call fails and the preview ends), its
\* message_id is put on the message and the session is stored
PreviewMessage(h, sent) ==
  /\ At(h, "preview")
  /\ LET index == handler[h].index
         session == handler[h].session
         message == session.messages[index + 1]
         text == PiecesOf(message.text)
         shown == Spread(session, [messages |->
                    [session.messages EXCEPT ![index + 1].messageId = PreviewMessageId]])
     IN /\ render' = [pc |-> "returned", text |-> text, group_name |-> PreviewGroupName,
                      event |-> SampleEvent,
                      result |-> replaceVars(text, PreviewGroupName, SampleEvent)]
        /\ IF sent
           THEN /\ userState' = setUserState(shown)
                /\ IF index + 1 < Len(session.messages)
                   THEN Goto(h, "preview", shown, index + 1, Null)
                   ELSE Return(h)
           ELSE Return(h) /\ UNCHANGED userState
  /\ UNCHANGED <<hierVars, send, broadcast, broadcast_message_detail, dispatches, adminIds, resolving>>

\* the pinChatMessage call of an iteration: made for a pinned variant once the
\* send call has returned
PinCall(message, sent, pinned) ==
  IF sent /\ message.isPinned THEN (IF pinned THEN "ok" ELSE "failed") ELSE "none"

\* createBroadcastRecord({ id, ...broadcastRecord }): the table afterwards
createBroadcastRecordSkipped(id) == broadcast
createBroadcastRecord(id) == broadcast \cup {id}

\* the data rows of the CSV log: successEntries joined, then failureEntries joined
CsvRows(s) == s.successEntries \o s.failureEntries

\* saveMessageDetail(broadcastId, messageId, group, isSent): the table afterwards;
\* an insert that fails is logged and nothing else
saveMessageDetail(broadcastId, g, isSent, inserted) ==
  IF inserted
  THEN Append(broadcast_message_detail,
              [broadcast_id |-> broadcastId, group_id |-> g.group_id, is_sent |-> isSent])
  ELSE broadcast_message_detail

\* handlePostActions(ctx, 'Send') and sendMessages up to the variant loop: the
\* session is read, the recipients are resolved, the start is announced
SendMessages(replied) ==
  /\ send.pc = "idle"
  /\ \A h \in Handlers : At(h, "idle")
  /\ userState.set /\ Has(userState.val, "step") /\ userState.val.step = "creating_post"
  /\ Has(userState.val, "messages") /\ userState.val.messages # <<>>
  /\ LET session == userState.val
         target == IF Has(session, "broadcastTarget") THEN session.broadcastTarget ELSE Global
         groups == getGroupsForBroadcast(target)
     IN /\ cache' = Filled(KeyOf(target), groups)
        /\ send' = IF NoRecipients(groups) THEN [NoSend EXCEPT !.pc = "no_groups"]
                   ELSE IF ~replied THEN Thrown(NoSend)
                   ELSE [NoSend EXCEPT !.pc = "record", !.messages = session.messages,
                                       !.groups = groups, !.v = 1]
  /\ UNCHANGED <<category, subcategory, group, cacheGroup, cacheChat, sessVars,
                 broadcast, broadcast_message_detail, dispatches, render, adminIds, resolving>>

\* createBroadcastRecord for the variant, whose id is its position; a variant that
\* is an array hole (null) has no mediaType to read, which throws before the insert
Record(inserted) ==
  /\ send.pc = "record"
  /\ IF inserted /\ send.messages[send.v] # NullMessage
     THEN /\ broadcast' = createBroadcastRecord(send.v)
          /\ send' = [send EXCEPT !.pc = IF 0 < Len(send.groups) THEN "recipient" ELSE "csv",
                                  !.i = 0,
                                  !.successEntries = <<>>, !.failureEntries = <<>>]
     ELSE /\ send' = Thrown(send)
          /\ UNCHANGED broadcast
  /\ UNCHANGED <<hierVars, sessVars, broadcast_message_detail, dispatches, render, adminIds, resolving>>

\* one iteration of the recipient loop up to the progress update, from the locals s:
\* the text is rendered (or replaceVars throws), the send call succeeds or fails, the
\* pin call of a pinned variant succeeds or fails, the detail insert succeeds or fails
Iteration(s, rendered, sent, pinned, inserted) ==
  LET g == s.groups[s.i + 1]
      message == s.messages[s.v]
  IN IF Unaddressable(g)
     THEN /\ send' = Continue(CountFailure(s))
          /\ UNCHANGED <<broadcast_message_detail, dispatches>>
     ELSE IF ~rendered
     THEN /\ send' = Thrown(s)
          /\ UNCHANGED <<broadcast_message_detail, dispatches>>
     ELSE /\ dispatches' = Append(dispatches,
                                  [v |-> s.v, group_id |-> g.group_id, ok |-> sent,
                                   pin |-> PinCall(message, sent, pinned),
                                   text |-> ProcessedText(message, g)])
          /\ IF sent
             THEN LET pinFailed == message.isPinned /\ ~pinned
                      s1 == IF pinFailed
                            THEN [s EXCEPT !.successEntries =
                                    Append(@, Entry(g, "Success (pin failed)", ErrorText))]
                            ELSE s
                      s2 == CountSuccess(s1)
                  IN IF HasEntry(s2.successEntries, g)
                     THEN /\ send' = Continue(s2)
                          /\ UNCHANGED broadcast_message_detail
                     ELSE /\ send' = EndOfIteration(
                               [s2 EXCEPT !.successEntries = Append(@, Entry(g, "Success", ""))])
                          /\ broadcast_message_detail' =
                               saveMessageDetail(s.v, g, TRUE, inserted)
             ELSE /\ send' = OnDispatchError(s, g)
                  /\ broadcast_message_detail' = saveMessageDetail(s.v, g, FALSE, inserted)

\* the iteration as one step
Recipient(rendered, sent, pinned, inserted) ==
  /\ send.pc = "recipient"
  /\ Iteration(send, rendered, sent, pinned, inserted)
  /\ UNCHANGED <<hierVars, sessVars, broadcast, render, adminIds, resolving>>

\* the send call of the iteration in hand: the variant and the chat it goes to
CallOf(s) == [v |-> s.v, group_id |-> s.groups[s.i + 1].group_id]

\* (the loop goes on without the answer of the call)
NotAwaited(s) == Continue(s)
\* `sentMessage = await ctx.telegram.sendMessage(...)`: the loop stands until the
\* call is answered
Awaited(s) == [s EXCEPT !.pc = "dispatching"]

\* the iteration up to its send call: the call is made; Telegram will answer it, or
\* never does
Dispatch(responds) ==
  /\ send.pc = "recipient"
  /\ ~Unaddressable(send.groups[send.i + 1])
  /\ send' = Awaited([send EXCEPT !.inflight =
                        @ \cup {[call |-> CallOf(send), responds |-> responds]}])
  /\ UNCHANGED <<hierVars, sessVars, broadcast, broadcast_message_detail, dispatches, render,
                 adminIds, resolving>>

\* the send call is answered and the iteration goes on from there
Answer(sent, pinned, inserted) ==
  /\ send.pc = "dispatching"
  /\ \E c \in send.inflight :
       /\ c.call = CallOf(send) /\ c.responds
       /\ Iteration([send EXCEPT !.pc = "recipient", !.inflight = @ \ {c}],
                    TRUE, sent, pinned, inserted)
  /\ UNCHANGED <<hierVars, sessVars, broadcast, render, adminIds, resolving>>

\* the iteration of a recipient without chat id
Skip ==
  /\ send.pc = "recipient"
  /\ Unaddressable(send.groups[send.i + 1])
  /\ Iteration(send, TRUE, TRUE, TRUE, TRUE)
  /\ UNCHANGED <<hierVars, sessVars, broadcast, render, adminIds, resolving>>

\* the progress update: the progress message is edited, or a new one is sent
Progress(edited, replied) ==
  /\ send.pc = "progress"
  /\ send' = IF send.progressMsgId # 0 /\ edited THEN Continue([send EXCEPT !.pc = "recipient"])
             ELSE IF replied
             THEN Continue([send EXCEPT !.pc = "recipient", !.progressMsgId = 1])
             ELSE Thrown(send)
  /\ UNCHANGED <<hierVars, sessVars, broadcast, broadcast_message_detail, dispatches, render, adminIds, resolving>>

\* fs.writeFileSync(logFilePath, csvContent) and fs.unlinkSync(logFilePath): the
\* files of the logs directory afterwards, each named by its broadcast id
writeFileSync(files, id) == files \cup {id}
unlinkSync(files, id) == files \ {id}

\* the CSV log of the variant is written to a file, sent to the admin and to the log
\* group (a failure there is logged only) and the file is removed; then the next
\* variant
Csv(replied, logged) ==
  /\ send.pc = "csv"
  /\ LET written == [send EXCEPT !.files = writeFileSync(@, send.v)]
         unlinked == [written EXCEPT !.files = unlinkSync(@, send.v)]
     IN send' = IF ~replied THEN Thrown(written)
                ELSE IF send.v < Len(send.messages)
                THEN [unlinked EXCEPT !.pc = "record", !.v = @ + 1, !.progressMsgId = 0]
                ELSE [unlinked EXCEPT !.pc = "summary", !.progressMsgId = 0]
  /\ UNCHANGED <<hierVars, sessVars, broadcast, broadcast_message_detail, dispatches, render, adminIds, resolving>>

\* handlePostActions(ctx, 'Send') of a Send that comes in while sendMessages is
\* running: the session is read again and sendMessages is called with it; with
\* groups to send to, it enters its variant loop
PostSend(h) ==
  /\ At(h, "post_send")
  /\ IF userState.set /\ Has(userState.val, "messages") /\ userState.val.messages # <<>>
     THEN LET session == userState.val
              target == IF Has(session, "broadcastTarget") THEN session.broadcastTarget
                        ELSE Global
              groups == getGroupsForBroadcast(target)
          IN /\ cache' = Filled(KeyOf(target), groups)
             /\ IF NoRecipients(groups) THEN Return(h)
                ELSE Goto(h, "sending", Spread(session, [groups |-> groups]), 0, Null)
     ELSE Return(h) /\ UNCHANGED cache
  /\ UNCHANGED <<category, subcategory, group, cacheGroup, cacheChat, userState, sendVars>>

\* the broadcast id of a variant of that second call
SecondId(s, v) == Len(s.messages) + v

\* the send calls of one variant to the recipients with a chat id, in list order
RECURSIVE CallsOf(_, _, _)
CallsOf(id, message, groups) ==
  IF groups = <<>> THEN <<>>
  ELSE (IF Unaddressable(Head(groups)) THEN <<>>
        ELSE <<[v |-> id, group_id |-> Head(groups).group_id, ok |-> TRUE,
                pin |-> PinCall(message, TRUE, TRUE),
                text |-> ProcessedText(message, Head(groups))]>>)
       \o CallsOf(id, message, Tail(groups))

\* one variant of that second call, every call and insert of it going through: its
\* broadcast row, its send calls, its detail rows; after the last variant the
\* summary is sent and the user state is cleared
SecondVariant(h) ==
  /\ At(h, "sending")
  /\ LET s == handler[h].session
         v == handler[h].index + 1
         calls == CallsOf(SecondId(s, v), s.messages[v], s.groups)
     IN IF s.messages[v] = NullMessage
        THEN \* an array hole has no mediaType to read: the call ends in its catch
             /\ Return(h)
             /\ UNCHANGED <<userState, broadcast, dispatches, broadcast_message_detail>>
        ELSE /\ broadcast' = createBroadcastRecord(SecondId(s, v))
             /\ dispatches' = dispatches \o calls
             /\ broadcast_message_detail' =
                  broadcast_message_detail \o
                    [n \in DOMAIN calls |-> [broadcast_id |-> calls[n].v,
                                             group_id |-> calls[n].group_id, is_sent |-> TRUE]]
             /\ IF v < Len(s.messages)
                THEN Goto(h, "sending", s, v, Null) /\ UNCHANGED userState
                ELSE Return(h) /\ userState' = NoUserState
  /\ UNCHANGED <<hierVars, send, render, adminIds, resolving>>

\* the summary is sent and the session is cleared
Summary(replied) ==
  /\ send.pc = "summary"
  /\ IF replied
     THEN send' = [send EXCEPT !.pc = "done"] /\ userState' = NoUserState
     ELSE send' = Thrown(send) /\ UNCHANGED userState
  /\ UNCHANGED <<hierVars, handler, broadcast, broadcast_message_detail, dispatches, render, adminIds, resolving>>

\* ------------------------------------------------------------------------
\* Specifications of the hierarchy
\* ------------------------------------------------------------------------
NoGroupsNoCache ==
  /\ group = [i \in RowIds |-> FreeRow]
  /\ cache = [k \in CacheKeys |-> Miss]
  /\ cacheGroup = [i \in RowIds |-> MissOne]
  /\ cacheChat = [x \in Chats |-> MissOne]

NoSession ==
  /\ userState = NoUserState
  /\ handler = [h \in Handlers |-> Idle]

NoSending ==
  /\ send = NoSend
  /\ broadcast = {}
  /\ broadcast_message_detail = <<>>
  /\ dispatches = <<>>
  /\ render = NoRender
  /\ adminIds = {UserId}
  /\ resolving = NoResolve

\* after the migrations and the seeds: "Other" and a category with a subcategory
InitGroups ==
  /\ category = [c \in Cats |-> [st |-> "live"]]
  /\ subcategory = [s \in Subs |-> [st |-> "live", category_id |-> "c1"]]
  /\ NoGroupsNoCache
  /\ NoSession
  /\ NoSending

\* after the migrations and the seed of "Other" alone
InitHier ==
  /\ category = [c \in Cats |-> IF c = OTHER_CATEGORY_ID THEN [st |-> "live"] ELSE NoCat]
  /\ subcategory = [s \in Subs |-> NoSub]
  /\ NoGroupsNoCache
  /\ NoSession
  /\ NoSending

GroupWrite ==
  \/ \E x \in Chats : HandleMessage(x)
  \/ \E x \in Chats : HandleNewMember(x)
  \/ \E x \in Chats, b \in BOOLEAN : HandleGroupRegistration(x, b)
  \/ \E x \in Chats : HandleTitleChange(x)
  \/ \E x \in Chats : HandleLeftMember(x)
  \/ \E id \in RowIds, c \in Cats, s \in Subs \cup {Null} : ApplyCategory(id, c, s)
  \/ \E id \in RowIds, c \in Cats \cup {Null}, s \in Subs \cup {Null} : HandleCategoryChange(id, c, s)

\* ("Other", which every registration relies on, is never deleted)
HierarchyWrite ==
  \/ \E c \in Cats : createCategory(c)
  \/ \E c \in Cats : updateCategory(c)
  \/ \E c \in Cats \ {OTHER_CATEGORY_ID} : deleteCategory(c)
  \/ \E s \in Subs, c \in Cats : createSubcategory(s, c)
  \/ \E s \in Subs, c \in Cats : updateSubcategory(s, c)
  \/ \E s \in Subs : deleteSubcategory(s)

ResolveAny == \E t \in Targets : Resolve(t)

\* group writes and resolves over a fixed category tree
NextGroups == GroupWrite \/ ResolveAny
SpecGroups == InitGroups /\ [][NextGroups]_vars

\* groups registered, renamed and removed while a list read is between its query
\* and its RunCache.set
NextInterleave ==
  \/ \E x \in Chats : HandleMessage(x)
  \/ \E x \in Chats : HandleTitleChange(x)
  \/ \E x \in Chats : HandleLeftMember(x)
  \/ \E t \in Targets : ResolveQuery(t)
  \/ ResolveSet
SpecInterleave == InitGroups /\ [][NextInterleave]_vars

\* groups registered, moved and removed
GroupMove ==
  \/ \E x \in Chats : HandleMessage(x)
  \/ \E x \in Chats : HandleLeftMember(x)
  \/ \E id \in RowIds, c \in Cats \cup {Null}, s \in Subs \cup {Null} : HandleCategoryChange(id, c, s)

\* every write of the category tree, over groups that are registered, moved and removed
NextHier == GroupMove \/ HierarchyWrite \/ ResolveAny
SpecHier == InitHier /\ [][NextHier]_vars

\* the updates of a composing admin, one update handler in flight at a time
Updates ==
  \/ \E text \in Texts \cup {"Cancel", "Delete All"} : HandleText(1, text)
  \/ AppendWrite(1)
  \/ EditWrite(1)
  \/ \E sent \in BOOLEAN : Display(1, sent)
  \/ EditClear(1)
  \/ CancelEdit(1)
  \/ PostCancel(1)
  \/ PostDeleteAll(1)
  \/ \E action \in MessageActions, index \in CallbackIndexes :
        HandleMessageAction(1, action, index)
  \/ InvalidIndexAnswer(1)
  \/ BeginEdit(1)
  \/ PinWrite(1)
  \/ DeleteWrite(1)

\* the admin composing over a fixed hierarchy (a start may still come in between
\* the read and the write of the handler)
Compose ==
  \/ \E t \in StartTargets : Start(t)
  \/ Updates

InitSess == InitGroups
NextSess == Compose
SpecSess == InitSess /\ [][NextSess]_vars

\* the admin composing, every update handled to its end before the next is taken
ComposeSerially ==
  \/ \E t \in StartTargets : At(1, "idle") /\ Start(t)
  \/ \E caption \in Captions : HandleMedia(1, caption)
  \/ Updates

NextSerial == ComposeSerially
SpecSerial == InitSess /\ [][NextSerial]_vars

\* new messages, pin toggles and deletions whose handlers interleave at their awaits
ComposeConcurrently ==
  \/ Start(Global)
  \/ \E h \in Handlers : HandleText(h, PlainLine)
  \/ \E h \in Handlers : AppendWrite(h)
  \/ \E h \in Handlers, sent \in BOOLEAN : Display(h, sent)
  \/ \E h \in Handlers, action \in {"pin", "delete"}, index \in 0..(MaxMessages - 1) :
        HandleMessageAction(h, action, index)
  \/ \E h \in Handlers : InvalidIndexAnswer(h)
  \/ \E h \in Handlers : PinWrite(h)
  \/ \E h \in Handlers : DeleteWrite(h)

NextRace == ComposeConcurrently
SpecRace == InitSess /\ [][NextRace]_vars

\* replaceVars is called with a text and the name of a group
InitRender ==
  /\ category = [c \in Cats |-> [st |-> "live"]]
  /\ subcategory = [s \in Subs |-> [st |-> "live", category_id |-> "c1"]]
  /\ NoGroupsNoCache
  /\ NoSession
  /\ send = NoSend /\ broadcast = {} /\ broadcast_message_detail = <<>> /\ dispatches = <<>>
  /\ adminIds = {UserId}
  /\ resolving = NoResolve
  /\ \E text \in TemplateTexts \cup {UnlockButtonUrl}, name \in {"Colombo", DollarName} :
       render = [NoRender EXCEPT !.pc = "call", !.text = text, !.group_name = name]

NextRender == \E answered \in BOOLEAN, event \in Events : ReplaceVars(answered, event)
SpecRender == InitRender /\ [][NextRender]_vars

\* groups registered in "Other" one after the other, each in a chat of its own;
\* group_id is a string column that is not null and unique, so that one row may
\* hold the empty string, which the recipient loop takes for a missing chat id
\* (Null here); a send is followed on lists of as many groups as there are chats
RegisteredTables ==
  {gt \in [RowIds -> {FreeRow} \cup {[st |-> "live", group_id |-> x,
                                       category_id |-> OTHER_CATEGORY_ID,
                                       subcategory_id |-> Null] : x \in Chats \cup {Null}}] :
     /\ \A i, j \in RowIds : (i < j /\ gt[j].st = "live") => gt[i].st = "live"
     /\ Cardinality({i \in RowIds : gt[i].st = "live"}) <= Cardinality(Chats)
     /\ \A i, j \in RowIds : (gt[i].st = "live" /\ gt[j].st = "live" /\ i # j)
                                => gt[i].group_id # gt[j].group_id}

\* the messages of a composed session: shown to the admin, pinned or not
ComposedMessages ==
  UNION {[1..n -> {[PostMessage(HelloLine) EXCEPT !.messageId = 1, !.isPinned = b] :
                     b \in BOOLEAN}] : n \in 1..MaxMessages}

\* the admin has composed a global broadcast and presses Send
InitSend ==
  /\ category = [c \in Cats |-> [st |-> "live"]]
  /\ subcategory = [s \in Subs |-> [st |-> "live", category_id |-> "c1"]]
  /\ group \in RegisteredTables
  /\ cache = [k \in CacheKeys |-> Miss]
  /\ cacheGroup = [i \in RowIds |-> MissOne]
  /\ cacheChat = [x \in Chats |-> MissOne]
  /\ \E messages \in ComposedMessages :
       userState = [set |-> TRUE, val |-> Spread(NewSession(Global), [messages |-> messages])]
  /\ handler = [h \in Handlers |-> Idle]
  /\ NoSending

\* the messages of a composed session that hold variables
PreviewedMessages ==
  UNION {[1..n -> {[PostMessage(text) EXCEPT !.messageId = 1] : text \in {HelloLine, EventLine}}] :
           n \in 1..MaxMessages}

\* the admin has composed a global broadcast and presses Preview, again and again,
\* while groups leave
InitPreview ==
  /\ category = [c \in Cats |-> [st |-> "live"]]
  /\ subcategory = [s \in Subs |-> [st |-> "live", category_id |-> "c1"]]
  /\ group \in RegisteredTables
  /\ cache = [k \in CacheKeys |-> Miss]
  /\ cacheGroup = [i \in RowIds |-> MissOne]
  /\ cacheChat = [x \in Chats |-> MissOne]
  /\ \E messages \in PreviewedMessages :
       userState = [set |-> TRUE, val |-> Spread(NewSession(Global), [messages |-> messages])]
  /\ handler = [h \in Handlers |-> Idle]
  /\ NoSending

NextPreview ==
  \/ HandleText(1, "Preview")
  \/ PostPreview(1)
  \/ \E sent \in BOOLEAN : PreviewMessage(1, sent)
  \/ \E x \in Chats : HandleLeftMember(x)

SpecPreview == InitPreview /\ [][NextPreview]_vars

\* a user who is an admin or is not, with no session, in front of registered groups
InitAccess ==
  /\ category = [c \in Cats |-> [st |-> "live"]]
  /\ subcategory = [s \in Subs |-> [st |-> "live", category_id |-> "c1"]]
  /\ group \in RegisteredTables
  /\ cache = [k \in CacheKeys |-> Miss]
  /\ cacheGroup = [i \in RowIds |-> MissOne]
  /\ cacheChat = [x \in Chats |-> MissOne]
  /\ NoSession
  /\ send = NoSend /\ broadcast = {} /\ broadcast_message_detail = <<>> /\ dispatches = <<>>
  /\ render = NoRender
  /\ adminIds \in {{UserId}, {OtherId}}
  /\ resolving = NoResolve

NextSend ==
  \/ \E replied \in BOOLEAN : SendMessages(replied)
  \/ \E inserted \in BOOLEAN : Record(inserted)
  \/ \E rendered, sent, pinned, inserted \in BOOLEAN : Recipient(rendered, sent, pinned, inserted)
  \/ \E edited, replied \in BOOLEAN : Progress(edited, replied)
  \/ \E replied, logged \in BOOLEAN : Csv(replied, logged)
  \/ \E replied \in BOOLEAN : Summary(replied)

SpecSend == InitSend /\ [][NextSend]_vars

\* the delivery loop with every send call followed from the call to its answer; the
\* calls and replies to the admin go through
NextFlight ==
  \/ SendMessages(TRUE)
  \/ Record(TRUE)
  \/ Skip
  \/ \E responds \in BOOLEAN : Dispatch(responds)
  \/ \E sent, pinned, inserted \in BOOLEAN : Answer(sent, pinned, inserted)
  \/ \E edited \in BOOLEAN : Progress(edited, TRUE)
  \/ \E logged \in BOOLEAN : Csv(TRUE, logged)
  \/ Summary(TRUE)

SpecFlight == InitSend /\ [][NextFlight]_vars
\* every step of sendMessages that can be taken is taken in the end
SpecFlightFair == SpecFlight /\ WF_vars(NextFlight)

\* the admin has composed a message for a target of any kind, over a hierarchy with
\* no group yet
InitTarget ==
  /\ category = [c \in Cats |-> [st |-> "live"]]
  /\ subcategory = [s \in Subs |-> [st |-> "live", category_id |-> "c1"]]
  /\ NoGroupsNoCache
  /\ \E target \in Targets :
       userState = [set |-> TRUE,
                    val |-> Spread(NewSession(target),
                                   [messages |-> <<[PostMessage(HelloLine) EXCEPT !.messageId = 1]>>])]
  /\ handler = [h \in Handlers |-> Idle]
  /\ NoSending

\* groups are registered, moved and removed and targets are resolved (by the menus
\* and by earlier sends); then the admin presses Send
NextTarget ==
  \/ \E x \in Chats : send.pc = "idle" /\ HandleMessage(x)
  \/ \E x \in Chats : send.pc = "idle" /\ HandleLeftMember(x)
  \/ \E id \in RowIds, c \in Cats \cup {Null}, s \in Subs \cup {Null} :
        send.pc = "idle" /\ HandleCategoryChange(id, c, s)
  \/ \E t \in Targets : send.pc = "idle" /\ Resolve(t)
  \/ SendMessages(TRUE)
  \/ Record(TRUE)
  \/ \E sent \in BOOLEAN : Recipient(TRUE, sent, TRUE, TRUE)
  \/ Progress(TRUE, TRUE)
  \/ Csv(TRUE, TRUE)
  \/ Summary(TRUE)

SpecTarget == InitTarget /\ [][NextTarget]_vars

\* sendMessages is running: in its loops or at its summary
SendRunning == send.pc \in {"record", "recipient", "progress", "csv", "summary"}

\* the updates of the owner that come in while sendMessages is running: Cancel and
\* a new start
DuringSend ==
  \/ SendRunning /\ HandleText(1, "Cancel")
  \/ PostCancel(1)
  \/ SendRunning /\ Start(Global)

\* the delivery loop, its replies to the admin and its inserts going through, while
\* the owner goes on sending updates
NextDuring ==
  \/ SendMessages(TRUE)
  \/ Record(TRUE)
  \/ \E sent \in BOOLEAN : Recipient(TRUE, sent, TRUE, TRUE)
  \/ Progress(TRUE, TRUE)
  \/ Csv(TRUE, TRUE)
  \/ Summary(TRUE)
  \/ DuringSend

SpecDuring == InitSend /\ [][NextDuring]_vars

\* no variant of a second call of sendMessages has been recorded (one such call is
\* followed)
SecondSendNotStarted == \A id \in broadcast : id <= Len(send.messages)

\* the owner presses Send again while sendMessages is running
SendAgain ==
  \/ SendRunning /\ SecondSendNotStarted /\ HandleText(1, "Send")
  \/ PostSend(1)
  \/ SecondVariant(1)

\* the delivery loop, every call of it going through, and a second Send
NextAgain ==
  \/ SendMessages(TRUE)
  \/ Record(TRUE)
  \/ Recipient(TRUE, TRUE, TRUE, TRUE)
  \/ Progress(TRUE, TRUE)
  \/ Csv(TRUE, TRUE)
  \/ Summary(TRUE)
  \/ SendAgain

SpecAgain == InitSend /\ [][NextAgain]_vars

\* sendMessages has returned
SendReturned == send.pc \in {"done", "failed", "no_groups"}

\* what follows a send: groups leave, categories are deleted, the admin cancels or
\* starts again
AfterSend ==
  \/ \E x \in Chats : SendReturned /\ HandleLeftMember(x)
  \/ \E c \in Cats : SendReturned /\ deleteCategory(c)
  \/ SendReturned /\ Start(Global)
  \/ SendReturned /\ HandleText(1, "Cancel")
  \/ SendReturned /\ PostCancel(1)

NextAudit == NextSend \/ AfterSend
SpecAudit == InitSend /\ [][NextAudit]_vars

\* the updates the user sends: the command, the global target chosen, texts, Cancel
\* and Send; composing is followed until Send is pressed
Access ==
  \/ send.pc = "idle" /\ OnBroadcast(1)
  \/ ShowBroadcastMenu(1)
  \/ DeniedAnswer(1)
  \/ send.pc = "idle" /\ Start(Global)
  \/ \E text \in {PlainLine, "Cancel"} : send.pc = "idle" /\ HandleText(1, text)
  \/ AppendWrite(1)
  \/ \E sent \in BOOLEAN : Display(1, sent)
  \/ PostCancel(1)

NextAccess == Access \/ NextSend
SpecAccess == InitAccess /\ [][NextAccess]_vars

\* ------------------------------------------------------------------------
\* Resolve against the store
\* ------------------------------------------------------------------------
\* ids of the reference recipient set of a target, read from the tables
ReferenceIds(target) ==
  IF target.type = "category"
  THEN {i \in Live(group) : group[i].category_id = target.id}
       \cup {i \in Live(group) : \E s \in Subs : /\ group[i].subcategory_id = s
                                                  /\ subcategory[s].st = "live"
                                                  /\ subcategory[s].category_id = target.id}
  ELSE IF target.type = "subcategory"
  THEN {i \in Live(group) : group[i].subcategory_id = target.id}
  ELSE Live(group)

ReferenceSet(target) == {GroupRec(i, group[i]) : i \in ReferenceIds(target)}

Range(list) == {list[n] : n \in DOMAIN list}

\* the list the queries of getGroupsForBroadcast(target) give, no cache involved
StoreResolve(target) ==
  IF target.type = "category"
  THEN SelectByCategory(group, target.id) \o SelectNested(group, subcategory, target.id)
  ELSE IF target.type = "subcategory" THEN SelectBySubcategory(group, target.id)
  ELSE SelectAll(group)

\* every target resolves to what the store holds now
ResolveIsCurrent == \A t \in Targets : getGroupsForBroadcast(t) = StoreResolve(t)

\* C1: whenever the cache entry of a target is empty, resolve(target) returns exactly
\* the reference recipient set of the target: every group for global, the groups of
\* category C and of the subcategories under C for category:C, the groups of S alone
\* for subcategory:S.
ResolveFromEmptyCacheIsReference ==
  \A t \in Targets :
    ~cache[KeyOf(t)].hit => Range(getGroupsForBroadcast(t)) = ReferenceSet(t)

\* a resolve of category:c1 has filled the cache from the store with a group that is
\* under c1 through its subcategory only
ResolvedNestedGroup ==
  /\ cache[KeyCategoryAll("c1")].hit
  /\ Range(cache[KeyCategoryAll("c1")].val) = ReferenceSet(CategoryTarget("c1"))
  /\ \E i \in ReferenceIds(CategoryTarget("c1")) :
       group[i].category_id = Null /\ group[i].subcategory_id = "s1"

\* C2: the list resolve returns has no two recipients with the same external id
\* (group_id), for every target.
ResolveHasNoDuplicateRecipient ==
  \A t \in Targets :
    LET list == getGroupsForBroadcast(t)
    IN \A m, n \in DOMAIN list : list[m].group_id = list[n].group_id => m = n

\* C3: after createGroup, updateGroup and deleteGroup the next resolve of every
\* target returns what a resolve computed from the store returns.
GroupWriteKeepsResolveCurrent == ResolveIsCurrent

\* C4: a category or subcategory create, update or delete done while every target
\* resolves to the store's content leaves every target resolving to the store's
\* content.
HierarchyWriteKeepsResolveCurrent ==
  [][(HierarchyWrite /\ ResolveIsCurrent) => ResolveIsCurrent']_vars

\* C5: every group has exactly one of category_id and subcategory_id set.
ExactlyOneParent ==
  \A i \in Live(group) : (group[i].category_id = Null) # (group[i].subcategory_id = Null)

\* C6: a start leaves the session of the admin equal to a fresh one: composing, the
\* chosen target, no message and no pending-edit marker, whatever it was before.
StartLeavesFreshSession ==
  [][\A t \in StartTargets :
       Start(t) => userState' = [set |-> TRUE, val |-> NewSession(t)]]_vars

StoredMessages == MessagesOf(userState.val)

\* C7: handlers of one admin that interleave leave what a serial order leaves: the
\* write of a new message keeps every stored message and adds one, and the write-back
\* of a displayed message neither adds nor removes a message.
ConcurrentComposeIsSerial ==
  [][\A h \in Handlers :
       /\ AppendWrite(h) =>
            /\ Len(StoredMessages') = Len(StoredMessages) + 1
            /\ \A n \in DOMAIN StoredMessages : StoredMessages'[n] = StoredMessages[n]
       /\ (\E sent \in BOOLEAN : Display(h, sent)) =>
            Len(StoredMessages') = Len(StoredMessages)]_vars

\* rows of broadcast_message_detail written for a broadcast
DeliveryRows(broadcastId) ==
  Cardinality({n \in DOMAIN broadcast_message_detail :
                 broadcast_message_detail[n].broadcast_id = broadcastId})

\* C8: once the recipient loop of a variant is over, exactly one delivery row per
\* resolved recipient has been written for the variant, whatever the outcomes.
OneDeliveryRowPerRecipient ==
  send.pc = "csv" => DeliveryRows(send.v) = Len(send.groups)

\* C9: when the send completes, successCount + failureCount is the number of
\* variants times the number of resolved recipients.
CountersCoverEveryPair ==
  send.pc \in {"summary", "done"} =>
    send.successCount + send.failureCount = Len(send.messages) * Len(send.groups)

\* a send of two variants to two recipients has completed with successes and failures
SendCompletedWithBothOutcomes ==
  /\ send.pc = "done"
  /\ Len(send.messages) = 2 /\ Len(send.groups) = 2
  /\ send.successCount > 0 /\ send.failureCount > 0

\* every addressable recipient has had a send call for every variant
EveryPairAttempted ==
  \A v \in DOMAIN send.messages, n \in DOMAIN send.groups :
    send.groups[n].group_id # Null =>
      \E d \in DOMAIN dispatches :
        dispatches[d].v = v /\ dispatches[d].group_id = send.groups[n].group_id

\* C10: a failed send call never halts the batch: the step that fails it counts it,
\* logs it with the error text, writes its delivery row when the insert works and
\* leaves the loop running; a send that completes has attempted every recipient of
\* every variant.
DispatchFailureNeverHalts ==
  /\ [][\A pinned, inserted \in BOOLEAN :
          (/\ send.pc = "recipient"
           /\ send.groups[send.i + 1].group_id # Null
           /\ Recipient(TRUE, FALSE, pinned, inserted))
          => /\ send'.pc \in {"recipient", "progress"}
             /\ send'.failureCount = send.failureCount + 1
             /\ send'.failureEntries =
                  Append(send.failureEntries,
                         Entry(send.groups[send.i + 1], "Failed", ErrorText))
             /\ inserted =>
                  broadcast_message_detail' =
                    Append(broadcast_message_detail,
                           [broadcast_id |-> send.v,
                            group_id |-> send.groups[send.i + 1].group_id,
                            is_sent |-> FALSE])]_vars
  /\ [](send.pc \in {"summary", "done"} => EveryPairAttempted)

\* the first send call of a completed send failed, and the other recipient and the
\* other variant were attempted after it
SendCompletedAfterFailedDispatch ==
  /\ send.pc = "done"
  /\ Len(dispatches) = 4
  /\ ~dispatches[1].ok
  /\ dispatches[2].group_id # dispatches[1].group_id
  /\ dispatches[3].v # dispatches[1].v

\* C20: rendering never raises, and every name in braces that is neither a variable
\* of the recipient nor one of the event comes out as the empty string.
UnknownTokenRendersEmpty ==
  /\ render.pc # "raised"
  /\ render.pc = "returned" =>
       \A n \in DOMAIN render.text :
         render.text[n] = "{unknown}" => render.result[n] = ""

\* C11: no exception of a recipient's iteration (rendering, send call, pin call,
\* recording, progress update) reaches the catch of sendMessages: from inside the
\* recipient loop the send never becomes failed.
RecipientExceptionStaysInLoop ==
  [][send.pc \in {"recipient", "progress"} => send'.pc # "failed"]_vars

\* C12: a send over a resolved list that is not empty ends with the user state of
\* the admin cleared, whatever happened to the recipients.
SendEndsWithSessionDestroyed ==
  (send.pc \in {"done", "failed"} /\ send.groups # <<>>) => userState = NoUserState

\* C13: a send whose target resolves to no group returns at once and changes
\* nothing: the user state keeps its step, messages and target, no broadcast row
\* and no detail row is written and no send call is made.
EmptySendHasNoEffect ==
  /\ [][(/\ send.pc = "idle" /\ send'.pc # "idle"
         /\ getGroupsForBroadcast(userState.val.broadcastTarget) = <<>>)
        => /\ send'.pc = "no_groups"
           /\ UNCHANGED <<userState, broadcast, broadcast_message_detail, dispatches>>]_vars
  /\ [](send.pc = "no_groups" =>
          /\ userState.set /\ userState.val.step = "creating_post"
          /\ userState.val.messages # <<>>
          /\ broadcast = {} /\ broadcast_message_detail = <<>> /\ dispatches = <<>>)

\* a send of two composed messages has returned for want of groups
EmptySendReturned ==
  /\ send.pc = "no_groups"
  /\ group = [i \in RowIds |-> FreeRow]
  /\ userState.set /\ Len(userState.val.messages) = 2

\* C14: the broadcast row of a variant is inserted once, before any send call and
\* any detail row of that variant: each send call and each detail row belongs to a
\* variant whose broadcast row is there.
RecordPrecedesDispatch ==
  /\ [][broadcast' # broadcast =>
         /\ send.v \notin broadcast
         /\ broadcast' = broadcast \cup {send.v}
         /\ \A d \in DOMAIN dispatches : dispatches[d].v # send.v
         /\ \A r \in DOMAIN broadcast_message_detail :
              broadcast_message_detail[r].broadcast_id # send.v]_vars
  /\ [](\A d \in DOMAIN dispatches : dispatches[d].v \in broadcast)
  /\ [](\A r \in DOMAIN broadcast_message_detail :
          broadcast_message_detail[r].broadcast_id \in broadcast)
  /\ [](send.pc \in {"recipient", "progress", "csv"} => send.v \in broadcast)

\* two variants were sent to two groups, each after its broadcast row
SendCompletedWithTwoRecords ==
  /\ send.pc = "done"
  /\ broadcast = {1, 2}
  /\ \E d, e \in DOMAIN dispatches : dispatches[d].v = 1 /\ dispatches[e].v = 2
  /\ \E r \in DOMAIN broadcast_message_detail : broadcast_message_detail[r].broadcast_id = 2

\* C15: a recipient without chat id is never the object of a send or pin call; its
\* iteration counts one failure and makes no call, and a send that completes has
\* made the send call of every other recipient for every variant.
UnaddressableNeverDispatched ==
  /\ [](\A d \in DOMAIN dispatches : dispatches[d].group_id # Null)
  /\ [][(/\ send.pc = "recipient"
         /\ send.groups[send.i + 1].group_id = Null
         /\ send' # send)
        => /\ send'.failureCount = send.failureCount + 1
           /\ send'.successCount = send.successCount
           /\ dispatches' = dispatches
           /\ send'.pc \in {"recipient", "csv"}
           /\ send'.pc = "recipient" => send'.i = send.i + 1]_vars
  /\ [](send.pc \in {"summary", "done"} => EveryPairAttempted)

\* a send to a recipient without chat id followed by one with a chat id has
\* completed: one failure per variant, and the other recipient got every variant
SendCompletedPastUnaddressable ==
  /\ send.pc = "done"
  /\ Len(send.groups) = 2
  /\ send.groups[1].group_id = Null /\ send.groups[2].group_id # Null
  /\ send.failureCount = Len(send.messages)
  /\ send.successCount = Len(send.messages)
  /\ Len(dispatches) = Len(send.messages)
  /\ \A d \in DOMAIN dispatches : dispatches[d].ok

\* the data rows of the CSV log of the variant in hand that name chat x
CsvRowsOf(x) == {k \in DOMAIN CsvRows(send) : CsvRows(send)[k].group_id = x}

\* C16: when the send call of a pinned variant succeeds and the pin call fails, the
\* iteration counts one success and no failure and logs the recipient once, as
\* "Success (pin failed)" with the error text; a pin call is only made after a send
\* call that succeeded.
PinFailureIsAnnotatedSuccess ==
  /\ [][\A inserted \in BOOLEAN :
          (/\ send.pc = "recipient"
           /\ send.groups[send.i + 1].group_id # Null
           /\ send.messages[send.v].isPinned
           /\ Recipient(TRUE, TRUE, FALSE, inserted))
          => /\ send'.successCount = send.successCount + 1
             /\ send'.failureCount = send.failureCount
             /\ send'.failureEntries = send.failureEntries
             /\ send'.successEntries =
                  Append(send.successEntries,
                         Entry(send.groups[send.i + 1], "Success (pin failed)", ErrorText))]_vars
  /\ [](\A d \in DOMAIN dispatches : dispatches[d].pin # "none" => dispatches[d].ok)
  /\ [](send.pc = "csv" =>
          \A d \in DOMAIN dispatches :
            (dispatches[d].v = send.v /\ dispatches[d].pin = "failed") =>
              /\ Cardinality(CsvRowsOf(dispatches[d].group_id)) = 1
              /\ \A k \in CsvRowsOf(dispatches[d].group_id) :
                   /\ CsvRows(send)[k].status = "Success (pin failed)"
                   /\ CsvRows(send)[k].reason = ErrorText)

\* the CSV log of a pinned variant is due after a failed pin call for one group and
\* a failed send call for the other
CsvAfterFailedPin ==
  /\ send.pc = "csv"
  /\ send.successCount = 1 /\ Len(send.failureEntries) = 1
  /\ \E d \in DOMAIN dispatches : dispatches[d].v = send.v /\ dispatches[d].pin = "failed"

\* C17: an insert into broadcast or broadcast_message_detail that fails during a
\* send never makes the send fail: the step that meets it leaves the send running.
AuditWriteFailureNeverAborts ==
  [][(\/ Record(FALSE)
      \/ \E sent, pinned \in BOOLEAN :
           send.pc = "recipient" /\ Recipient(TRUE, sent, pinned, FALSE))
     => send'.pc # "failed"]_vars

\* C19: every recipient of a variant is named by exactly one data row of the CSV
\* log of the variant, and no row of a failure comes before a row of a success.
EveryRecipientInOneCsvRow ==
  send.pc = "csv" =>
    /\ \A n \in DOMAIN send.groups : Cardinality(CsvRowsOf(send.groups[n].group_id)) = 1
    /\ \A k, l \in DOMAIN CsvRows(send) :
         (CsvRows(send)[k].status = "Failed" /\ CsvRows(send)[l].status # "Failed") => l < k

\* C18: a row of broadcast or broadcast_message_detail, once written, is never
\* changed or removed: every step keeps the rows there are and at most adds rows.
AuditRowsAreAppendOnly ==
  [][/\ broadcast \subseteq broadcast'
     /\ Len(broadcast_message_detail') >= Len(broadcast_message_detail)
     /\ \A n \in DOMAIN broadcast_message_detail :
          broadcast_message_detail'[n] = broadcast_message_detail[n]]_vars

\* C22 (as stated): every dispatch of a send carries the template with {group}
\* replaced by the name of the recipient it goes to, "Hello " followed by that name
\* for the template "Hello {group}".
DispatchCarriesOwnRendering ==
  \A n \in DOMAIN dispatches :
    send.messages[dispatches[n].v].text = HelloLine =>
      dispatches[n].text = "Hello " \o TitleOf(dispatches[n].group_id)

\* C23 (as stated): when the handler of a Cancel returns, whether the session was
\* composing or had an edit pending, no session is stored for the owner.
CancelDiscardsSession ==
  [][\A h \in Handlers :
       (handler[h].pc \in {"cancel_edit", "post_cancel"} /\ handler'[h].pc = "idle")
         => ~userState'.set]_vars

\* C24: a media, url, pin or delete callback whose index is not that of a stored
\* message is answered at once and the handler returns; neither step changes the
\* stored session (messages, pending-edit marker, target, step).
InvalidIndexLeavesSessionUnchanged ==
  [][\A h \in Handlers :
       /\ (/\ At(h, "idle")
           /\ handler'[h].pc \in {"invalid_index", "begin_edit", "pin_write", "delete_write"}
           /\ handler'[h].index \notin 0..(Len(MessagesOf(userState.val)) - 1))
            => (handler'[h].pc = "invalid_index" /\ userState' = userState)
       /\ (At(h, "invalid_index") /\ handler'[h].pc = "idle") => userState' = userState]_vars

InvalidIndexAnswered ==
  /\ handler[1].pc = "invalid_index" /\ handler[1].index = 1
  /\ userState.set /\ Len(MessagesOf(userState.val)) = 1
  /\ Has(userState.val, "currentAction")

\* the fields of the edited message an edit of a kind touches: what the admin sent,
\* and the id of the message as last shown
EditedFields(kind) ==
  IF kind = "media" THEN {"mediaUrl", "mediaType", "text", "messageId"}
  ELSE {"urlButtons", "messageId"}

\* two lists of the same messages in the same order, but for the named fields of
\* the message at index
OnlyAt(before, after, index, fields) ==
  /\ Len(after) = Len(before)
  /\ \A n \in DOMAIN before :
       \A k \in DOMAIN before[n] :
         (n # index + 1 \/ k \notin fields) => after[n][k] = before[n][k]

\* C25: handled to its end, a text of URL buttons or a photo that completes the
\* pending edit changes, at every write, only the message at the pending index (its
\* buttons, or its media and caption) and leaves number, order and every other
\* message as they were; when the handler returns the message holds what was sent,
\* the session is composing and holds no pending-edit marker.
CompleteEditChangesPendingMessageOnly ==
  [][(handler[1].pc \in {"edit_write", "display", "edit_clear"}
        /\ handler[1].action \in {"edit", "media"}) =>
       LET index == handler[1].index
           edited == StoredMessages'[index + 1]
       IN /\ OnlyAt(StoredMessages, StoredMessages', index, EditedFields(handler[1].action))
          /\ userState'.val.broadcastTarget = userState.val.broadcastTarget
          /\ handler'[1].pc = "idle" =>
               /\ userState'.val.step = "creating_post"
               /\ ~Has(userState'.val, "currentAction")
               /\ ~Has(userState'.val, "currentMessageIndex")
               /\ handler[1].action = "edit" => edited.urlButtons = parseUrlButtons(ButtonLine)
               /\ handler[1].action = "media" =>
                    (edited.mediaUrl = FileId /\ edited.mediaType = "photo" /\ edited.text = "c")]_vars

CompletedEditOfSecondMessage ==
  /\ handler[1].pc = "edit_clear" /\ handler[1].action = "edit" /\ handler[1].index = 1
  /\ Len(StoredMessages) = 2
  /\ StoredMessages[2].urlButtons # <<>>
  /\ StoredMessages[1].mediaUrl = FileId

PendingEdit(o) ==
  <<IF Has(o, "currentAction") THEN o.currentAction ELSE Undefined,
    IF Has(o, "currentMessageIndex") THEN o.currentMessageIndex ELSE UndefinedIndex>>

\* C27: handled to its end, a pin callback with the index of a stored message flips
\* isPinned of that message; count and order of the messages, text, media and
\* buttons of every message, isPinned of every other message, the target and the
\* pending-edit marker stay as they were (the message is shown again where it had
\* not been, which renews its messageId only).
TogglePinFlipsOneFlagOnly ==
  [][(handler[1].pc = "pin_write" \/ (handler[1].pc = "display" /\ handler[1].action = "pin")) =>
       LET index == handler[1].index
       IN /\ OnlyAt(StoredMessages, StoredMessages', index, {"isPinned", "messageId"})
          /\ StoredMessages'[index + 1].isPinned =
               IF handler[1].pc = "pin_write" THEN ~StoredMessages[index + 1].isPinned
               ELSE StoredMessages[index + 1].isPinned
          /\ userState'.val.broadcastTarget = userState.val.broadcastTarget
          /\ PendingEdit(userState'.val) = PendingEdit(userState.val)]_vars

UnpinnedSecondOfTwoWhileEditing ==
  /\ handler[1].pc = "pin_write" /\ handler[1].index = 1
  /\ Len(StoredMessages) = 2
  /\ StoredMessages[2].isPinned /\ StoredMessages[1].isPinned
  /\ Has(userState.val, "currentAction")

\* C28 (as stated): no step of the handler of Preview changes the stored session,
\* the broadcast records, the delivery rows or the dispatches to groups.
PreviewIsPureRead ==
  [][handler[1].pc \in {"post_preview", "preview"} =>
       /\ userState' = userState
       /\ broadcast' = broadcast
       /\ broadcast_message_detail' = broadcast_message_detail
       /\ dispatches' = dispatches]_vars

\* C29: a text that a preview renders again, with no compose operation since the
\* preview before, comes out as it did then, whatever groups have left in between;
\* and no preview changes the text of a stored message.
PreviewRendersSameTextAgain ==
  [][handler[1].pc = "preview" =>
       /\ (render.pc = "returned" /\ render.text = render'.text)
            => render'.result = render.result
       /\ \A n \in DOMAIN StoredMessages : StoredMessages'[n].text = StoredMessages[n].text]_vars

SecondPreviewAfterGroupLeft ==
  /\ handler[1].pc = "preview" /\ handler[1].index = 0
  /\ render.pc = "returned"
  /\ render.text = PiecesOf(handler[1].session.messages[1].text)
  /\ handler[1].session.messages[1].messageId = PreviewMessageId
  /\ \E i \in RowIds : group[i].st = "dead"

\* C30: a user whose id is not in ADMIN_IDS never has a session stored, whatever
\* updates that user sends (the command, a target, texts, Cancel, Send), and
\* then nothing is sent to a group: no send starts and no dispatch is made.
OnlyAdminsBroadcast ==
  UserId \notin adminIds =>
    (userState = NoUserState /\ send = NoSend /\ dispatches = <<>> /\ broadcast = {})

NonAdminDenied ==
  /\ UserId \notin adminIds
  /\ handler[1].pc = "denied"
  /\ \E i \in RowIds : group[i].st = "live" /\ group[i].group_id # Null

\* C21: when the event found has a slug, every {unlock_link} of a text comes out as
\* the base URL followed by the slug, whatever unlock_link the event stores, and so
\* does the url stored for a button given as {unlock_link}.
UnlockLinkRendersFromSlug ==
  (render.pc = "returned" /\ render.event.found /\ render.event.slug # "") =>
    /\ \A n \in DOMAIN render.text :
         render.text[n] = "{unlock_link}" =>
           render.result[n] = "https://app.unlock-protocol.com/event/" \o render.event.slug
    /\ render.text = UnlockButtonUrl =>
         render.result = <<"https://app.unlock-protocol.com/event/", render.event.slug>>

\* a text with {unlock_link} was rendered for an event with a slug and another link
RenderedUnlockLinkWithSlug ==
  /\ render.pc = "returned"
  /\ render.event.found /\ render.event.slug = "meetup"
  /\ render.event.unlock_link = "https://example.org/tickets"
  /\ \E n \in DOMAIN render.text : render.text[n] = "{unlock_link}"

\* C31 (as stated): once a list read and the group writes that came in between have
\* completed, the cache entry of every selector is absent or holds what the store
\* holds now.
CompletedResolveLeavesCacheCurrent ==
  resolving.pc = "idle" =>
    \A t \in Targets : ~cache[KeyOf(t)].hit \/ cache[KeyOf(t)].val = StoreResolve(t)

\* the recipients of variant v from position 1 to n that have a chat id have had
\* their send call answered
AttemptedUpTo(v, n) ==
  \A m \in 1..n :
    send.groups[m].group_id # Null =>
      \E d \in DOMAIN dispatches :
        dispatches[d].v = v /\ dispatches[d].group_id = send.groups[m].group_id

\* C32: within a send at most one send call is in flight; when a call is made no
\* other is in flight, it is for the recipient next in the resolved list, every
\* recipient before it in the list and every recipient of every earlier variant has
\* been attempted and counted, and no later one has.
OneDispatchInFlightInListOrder ==
  /\ [](Cardinality(send.inflight) <= 1)
  /\ [][(send.pc = "recipient" /\ send'.inflight # send.inflight) =>
         /\ send.inflight = {}
         /\ send'.inflight = {[call |-> CallOf(send), responds |-> TRUE]}
              \/ send'.inflight = {[call |-> CallOf(send), responds |-> FALSE]}
         /\ send.successCount + send.failureCount = (send.v - 1) * Len(send.groups) + send.i
         /\ Len(dispatches) <= (send.v - 1) * Len(send.groups) + send.i
         /\ AttemptedUpTo(send.v, send.i)
         /\ \A k \in 1..(send.v - 1) : AttemptedUpTo(k, Len(send.groups))]_vars

\* the send call of the second variant to the second of two groups is in flight
LastCallOfSecondVariantInFlight ==
  /\ send.pc = "dispatching" /\ send.v = 2 /\ send.i = 1
  /\ Cardinality(send.inflight) = 1
  /\ Len(dispatches) = 3

\* C33 (as stated): every send that has started its delivery loop completes in the
\* end, summary sent and session cleared, also when a send call is never answered.
SendAlwaysTerminates ==
  (send.pc \in {"record", "recipient", "dispatching"}) ~> (send.pc = "done" /\ ~userState.set)

\* C34 (as stated): the iteration of a recipient whose position is a multiple of 10,
\* or who is the last of the list, is followed by a progress report whatever its
\* outcome (success, success with failed pin, failed send call, no chat id).
ProgressAfterEveryTenthAndLast ==
  [][(/\ send.pc = "recipient" /\ send' # send /\ send'.pc # "failed"
      /\ ((send.i + 1) % ProgressEvery = 0 \/ send.i = Len(send.groups) - 1))
     => send'.pc = "progress"]_vars

\* C35 (as stated): once sendMessages has returned, no CSV file it wrote is left in
\* the logs directory, also when sending the file to the admin or to the log group
\* failed.
CsvFilesAreDeleted ==
  send.pc \in {"done", "failed"} => send.files = {}

\* C36: no update of the owner that is handled while sendMessages is running (Cancel,
\* a new start) changes anything of the delivery in progress; the next
\* recipient can be attempted whether or not a session is still stored; and when the
\* loop of a variant is over, every recipient of the variant has been attempted and
\* counted.
DeliveryIgnoresOwnerEvents ==
  /\ [][(handler' # handler \/ (userState' # userState /\ send.pc # "summary"))
         => send' = send]_vars
  /\ [](send.pc = "recipient" => ENABLED (\E sent \in BOOLEAN : Recipient(TRUE, sent, TRUE, TRUE)))
  /\ [](send.pc \in {"csv", "summary", "done"} =>
          /\ \A k \in 1..send.v : AttemptedUpTo(k, Len(send.groups))
          /\ send.successCount + send.failureCount = send.v * Len(send.groups))

\* the owner has cancelled after the first of two recipients of a variant
CancelledBeforeLastRecipient ==
  /\ send.pc = "recipient" /\ send.i = 1 /\ Len(send.groups) = 2
  /\ send.groups[2].group_id # Null
  /\ ~userState.set
  /\ handler[1].pc = "idle"

\* C37 (as stated): a Send of the owner that is handled while sendMessages is running
\* starts no second delivery loop.
SecondSendStartsNoLoop ==
  [][(SendRunning /\ handler[1].pc = "post_send") => handler'[1].pc # "sending"]_vars

\* C38 (as stated): when sendMessages completes while the stored session is another
\* one than it was started from (the owner cancelled and started again in between),
\* that session is left as it is.
SendCompletionKeepsNewSession ==
  [][(/\ send.pc = "summary" /\ send'.pc = "done"
      /\ userState.set /\ StoredMessages # send.messages)
     => userState' = userState]_vars

\* C39 (as stated): a delete or Delete All handled while an edit is pending leaves
\* the pending-edit marker, if it is still there, designating the message it
\* designated before or no message at all, so that the edit is never completed on
\* another message.
PendingEditKeepsItsMessage ==
  [][(/\ handler[1].pc \in {"delete_write", "post_delete_all"}
      /\ userState.set /\ Has(userState.val, "currentMessageIndex")
      /\ userState'.set /\ Has(userState'.val, "currentMessageIndex"))
     => LET index == userState.val.currentMessageIndex
        IN \/ index + 1 \notin DOMAIN StoredMessages'
           \/ StoredMessages'[index + 1] = StoredMessages[index + 1]]_vars

\* C40 (as stated): the list a send resolves holds only groups that, in the store at
\* that moment, are in the reference set of the target of the session, and every
\* dispatch of the send goes to a group of that list.
DispatchOnlyInsideTarget ==
  /\ [][(send.pc = "idle" /\ send'.pc = "record")
         => Range(send'.groups) \subseteq ReferenceSet(userState.val.broadcastTarget)]_vars
  /\ [](\A d \in DOMAIN dispatches :
          \E n \in DOMAIN send.groups : send.groups[n].group_id = dispatches[d].group_id)

====
